---- MODULE Spec2Model ----
(***************************************************************************)
(* State-machine model of the SOC Pi inventory / baseline / diff / risk    *)
(* engine and its quarantine (IPS) manager, src/v15/dashboard15.py.        *)
(*                                                                         *)
(* Threads modelled: the scanner thread (background_scanner) and the Flask *)
(* request handlers api_scan_now, api_ips_quarantine, api_ips_unquarantine,*)
(* api_alerts and api_snapshot (a threaded server: up to two requests in   *)
(* flight).                                                                *)
(* Files are state                                                         *)
(* variables: baseline.json, quarantine.json, alerts.jsonl,                *)
(* scan_snapshot.json, vendor_cache.json; the kernel's iptables rules are  *)
(* a variable too.                                                         *)
(*                                                                         *)
(* Time is an integer clock in units of one scan interval; it advances     *)
(* where the scanner blocks (the nmap profiling run, the inter-cycle       *)
(* wait).  Python's None and "" for a hardware address are both falsy at   *)
(* every use in the source and are both written "".                        *)
(*                                                                         *)
(* The actions are shared by several specifications, each with the inputs  *)
(* of one concern: Spec (the scanner over restarts), SpecTwoHosts (two     *)
(* addresses answering with one hardware address), SpecScanNow (scanner    *)
(* and manual scan requests), SpecIps (the enforcement requests on two     *)
(* threads, over restarts and reboots), SpecQuarantine (scanner and        *)
(* enforcement requests), SpecCalls (all argument combinations on one      *)
(* thread against requests for one address on the other), SpecEvents (all  *)
(* writers and the reader of alerts.jsonl), SpecProviders (failing         *)
(* discovery, profiling and vendor lookup), SpecFaults (failures inside a  *)
(* cycle, with fairness), SpecSnapshot (readers of the snapshot), SpecWake *)
(* (manual scan requests, with fairness), SpecSkip (a device that returns  *)
(* inside its profile TTL), SpecOrder (the diff on all differences, and    *)
(* two hosts per cycle), SpecOffline (the diff on OFFLINE records),        *)
(* SpecSlow (profiling that takes time), SpecAgree (sequential enforcement *)
(* requests that succeed), SpecFrame (scanner, enforcement and reboot),    *)
(* SpecEmitFault (an event log that cannot always be written), SpecDiff,   *)
(* SpecRisk and SpecType                                                   *)
(* (diff_and_emit_events, compute_risk and identify_device_type on their   *)
(* own).                                                                   *)
(***************************************************************************)
EXTENDS Integers, Sequences, FiniteSets, TLC

VARIABLES
    clock,             \* time.time() / datetime.now()
    scan_status,       \* scan_status["state"]
    scan_requested,    \* threading.Event scan_requested
    pc,                \* position of the scanner thread
    start_ts,          \* scanner local: start_ts / now of the running cycle
    discovered,        \* scanner local: hosts of `discovered` not yet processed
    key,               \* scanner local: `key` of the host processed last
    new_devices,       \* scanner local: new_devices counter of the cycle
    device_inventory,  \* dict device_inventory, in insertion order
    baseline,          \* scanner local: dict baseline (in memory)
    baseline_file,     \* baseline.json
    quarantine_file,   \* quarantine.json
    iptables,          \* kernel rules: chain -> source address -> number of DROP rules
    events,            \* alerts.jsonl
    snapshot_file,     \* scan_snapshot.json
    vendor_cache,      \* vendor_cache.json
    root,              \* os.geteuid() = 0 and iptables installed
    req,               \* request handlers in flight, per server thread
    calls,             \* number of API requests accepted so far
    restarts,          \* number of process restarts so far
    cycle_mark         \* history: length of alerts.jsonl when the current
                       \* scan cycle began

vars == <<clock, scan_status, scan_requested, pc, start_ts, discovered, key,
          new_devices, device_inventory, baseline, baseline_file,
          quarantine_file, iptables, events, snapshot_file, vendor_cache,
          root, req, calls, restarts, cycle_mark>>


(***************************************************************************)
(* Bounds of the model.                                                    *)
(***************************************************************************)
MaxTime == 3
MaxCalls == 3
MaxRestarts == 1
MaxEvents == 4
QuarantineTime == 1
EventsCalls == 1

(***************************************************************************)
(* Configuration, in clock units (the defaults are 60 s, 180 s, 300 s and  *)
(* the 240 s timeout of the profiling run; the order of the four values is *)
(* kept).                                                                  *)
(***************************************************************************)
SCAN_INTERVAL_SEC == 1
OFFLINE_AFTER_SEC == 2
PROFILE_TTL_SEC == 3
PROFILE_TIMEOUT == 2
UNBLOCK_ROUNDS == 6

RISKY_PORTS_CRITICAL == {"23", "2323", "3389", "5900", "445"}
RISKY_PORTS_MEDIUM == {"22", "21", "8080", "8443", "3306", "5432"}

Threads == {1, 2}
Chains == {"INPUT", "FORWARD"}

(***************************************************************************)
(* The network the scanner looks at: two addresses, one hardware address   *)
(* (which nmap may report in either letter case, or not at all).           *)
(***************************************************************************)
IPs == {"10.0.0.5", "10.0.0.6"}
HwAddrs == {"aa:bb", "AA:BB"}
NoMac == ""

Max(a, b) == IF a >= b THEN a ELSE b

\* str.upper() on the hardware addresses of the model
Upper(s) == IF s = "aa:bb" THEN "AA:BB" ELSE s

\* lexicographic order of the port strings of the model, as sorted() orders str
PortRank(p) ==
    CASE p = "22" -> 1 [] p = "23" -> 2 [] p = "445" -> 3 [] p = "80" -> 4
      [] p = "8008" -> 5 [] OTHER -> 6

RECURSIVE sorted(_)
sorted(S) ==
    IF S = {} THEN <<>>
    ELSE LET m == CHOOSE x \in S : \A y \in S : PortRank(x) <= PortRank(y)
         IN <<m>> \o sorted(S \ {m})

ToSet(s) == {s[i] : i \in 1..Len(s)}

----------------------------------------------------------------------------
(***************************************************************************)
(* Pure functions of the source.                                           *)
(***************************************************************************)

make_key(ip, mac) == IF mac # "" THEN Upper(mac) ELSE "IP:" \o ip

Keys == {make_key(ip, m) : ip \in IPs, m \in HwAddrs \cup {NoMac}}

\* substring tests of identify_device_type, tabulated on the strings of the model
VendorHasRaspberry(v) == v \in {"Raspberry Pi Trading"}
VendorHasApple(v) == v \in {"Apple"}
VendorHasTv(v) == v \in {"Samsung"}
HostnameHasPi(h) == h \in {"pi"}
OsHasDarwin(o) == o \in {"Darwin"}
OsHasWindows(o) == o \in {"Windows 10"}
OsHasLinux(o) == o \in {"Linux"}

identify_device_type_os_first(vendor, os_guess, hostname, open_ports) ==
    IF OsHasLinux(os_guess) THEN
        IF "22" \in open_ports THEN "Linux Server / SBC" ELSE "Linux Device"
    ELSE IF VendorHasRaspberry(vendor) \/ HostnameHasPi(hostname) THEN "Raspberry Pi"
    ELSE "Unknown Device"
identify_device_type(vendor, os_guess, hostname, open_ports) ==
    IF VendorHasRaspberry(vendor) \/ HostnameHasPi(hostname) THEN "Raspberry Pi"
    ELSE IF VendorHasApple(vendor) THEN
        IF "62078" \in open_ports THEN "iPhone/iPad (Locked)"
        ELSE IF OsHasDarwin(os_guess) THEN "Mac (iMac/MacBook)"
        ELSE "Apple Device"
    ELSE IF VendorHasTv(vendor) THEN "Smart TV"
    ELSE IF open_ports \cap {"8008", "8009", "1900", "554", "2869"} # {}
        THEN "Smart TV / Media Player"
    ELSE IF OsHasWindows(os_guess) THEN "Windows Device"
    ELSE IF OsHasLinux(os_guess) THEN
        IF "22" \in open_ports THEN "Linux Server / SBC" ELSE "Linux Device"
    ELSE "Unknown Device"

compute_risk(open_ports, os_guess, state, quarantined) ==
    IF quarantined THEN "CRITICAL"
    ELSE IF state = "OFFLINE" THEN "MEDIUM"
    ELSE IF open_ports \cap RISKY_PORTS_CRITICAL # {} THEN "CRITICAL"
    ELSE IF open_ports \cap RISKY_PORTS_MEDIUM # {} THEN "MEDIUM"
    ELSE IF os_guess \in {"", "Unknown"} THEN "MEDIUM"
    ELSE "LOW"

is_quarantined(q, ip, mac) ==
    IF mac # "" /\ Upper(mac) \in DOMAIN q THEN TRUE
    ELSE IF ip # "" /\ ("IP:" \o ip) \in DOMAIN q THEN TRUE
    ELSE FALSE

\* dict helpers: device_inventory keeps insertion order, the others are maps
HasKey(inv, k) == \E i \in 1..Len(inv) : inv[i].key = k
Get(inv, k) == inv[CHOOSE i \in 1..Len(inv) : inv[i].key = k]
PutByAddress(inv, k, d) ==
    IF \E i \in 1..Len(inv) : inv[i].ip = d.ip
    THEN [i \in 1..Len(inv) |-> IF inv[i].ip = d.ip THEN d ELSE inv[i]]
    ELSE Append(inv, d)
Put(inv, k, d) ==
    IF HasKey(inv, k)
    THEN [i \in 1..Len(inv) |-> IF inv[i].key = k THEN d ELSE inv[i]]
    ELSE Append(inv, d)
MapPut(m, k, v) == [x \in DOMAIN m \cup {k} |-> IF x = k THEN v ELSE m[x]]
MapPop(m, k) == [x \in DOMAIN m \ {k} |-> m[x]]
EmptyMap == [x \in {} |-> x]

\* save_quarantine is inside path.write_text, which truncates quarantine.json
\* before it writes the new text
Saving == \E t \in Threads : req[t].pc = "saving"

\* load_quarantine() by a reader that holds no lock: load_json answers its
\* default, {}, for a file it cannot parse
ReadQuarantine == IF Saving THEN EmptyMap ELSE quarantine_file

\* d.get(f, ""), for the details of an event
Field(d, f) == IF f \in DOMAIN d THEN d[f] ELSE ""

\* one record of alerts.jsonl (the title, a display string, is left out)
Event(ts, kind, severity, details) ==
    [ts |-> ts, kind |-> kind, severity |-> severity, details |-> details]

\* emit_event: `with open(ALERTS_FILE, "a") as f: f.write(json.dumps(evt) + "\n")`,
\* once for each record of evs
EmitTruncating(log, evs) == evs
Emit(log, evs) == log \o evs

\* tail_events(limit): the last `limit` lines of alerts.jsonl, newest first
tail_events(log, limit) ==
    LET n == IF Len(log) < limit THEN Len(log) ELSE limit
    IN  [i \in 1..n |-> log[Len(log) + 1 - i]]

\* `if not prev`: emit NEW_DEVICE with the record's risk as severity, and return
NewDeviceFallThrough(ts, curr) ==
    << Event(ts, "NEW_DEVICE", curr.risk, [ip |-> curr.ip, mac |-> curr.mac,
                                           vendor |-> curr.vendor]),
       Event(ts, "STATE_CHANGE", "INFO", [ip |-> curr.ip, mac |-> curr.mac,
                                          from |-> "None", to |-> curr.state]) >>
NewDevice(ts, curr) ==
    << Event(ts, "NEW_DEVICE", curr.risk, [ip |-> curr.ip, mac |-> curr.mac,
                                           vendor |-> curr.vendor]) >>

\* sev = "CRITICAL" if set(added) & RISKY_PORTS_CRITICAL else "MEDIUM"
PortChangeSeverityAnyRisky(added) ==
    IF ToSet(added) \cap (RISKY_PORTS_CRITICAL \cup RISKY_PORTS_MEDIUM) # {}
    THEN "CRITICAL" ELSE "MEDIUM"
PortChangeSeverity(added) ==
    IF ToSet(added) \cap RISKY_PORTS_CRITICAL # {} THEN "CRITICAL" ELSE "MEDIUM"

\* The events diff_and_emit_events emits for (curr, prev), in order; prev is
\* passed as a set: {} for None, {p} for a baseline entry.
diff_and_emit_events_any_state(ts, curr, prevs) ==
    IF prevs = {} THEN NewDevice(ts, curr)
    ELSE
    LET prev == CHOOSE p \in prevs : TRUE
    IN  (IF prev.state # curr.state
         THEN << Event(ts, "STATE_CHANGE", "INFO",
                       [ip |-> curr.ip, mac |-> curr.mac,
                        from |-> prev.state, to |-> curr.state]) >>
         ELSE <<>>)
     \o (IF prev.ports # curr.ports
         THEN << Event(ts, "PORT_CHANGE", "MEDIUM",
                       [ip |-> curr.ip, mac |-> curr.mac,
                        added |-> sorted(curr.ports \ prev.ports),
                        removed |-> sorted(prev.ports \ curr.ports)]) >>
         ELSE <<>>)
diff_and_emit_events_exclusive(ts, curr, prevs) ==
    IF prevs = {} THEN NewDevice(ts, curr)
    ELSE
    LET prev == CHOOSE p \in prevs : TRUE
        who == [ip |-> curr.ip, mac |-> curr.mac]
    IN  IF prev.state # curr.state
        THEN << Event(ts, "STATE_CHANGE",
                      IF curr.state = "OFFLINE" THEN "MEDIUM" ELSE "INFO",
                      [ip |-> curr.ip, mac |-> curr.mac,
                       from |-> prev.state, to |-> curr.state]) >>
        ELSE IF prev.risk # curr.risk /\ curr.state # "OFFLINE"
        THEN << Event(ts, "RISK_CHANGE",
                      IF curr.risk = "CRITICAL" THEN "CRITICAL" ELSE "MEDIUM",
                      who) >>
        ELSE <<>>
diff_and_emit_events(ts, curr, prevs) ==
    IF prevs = {} THEN NewDevice(ts, curr)
    ELSE
    LET prev == CHOOSE p \in prevs : TRUE
        who == [ip |-> curr.ip, mac |-> curr.mac]
        added == sorted(curr.ports \ prev.ports)
        removed == sorted(prev.ports \ curr.ports)
    IN  (IF prev.state # curr.state
         THEN << Event(ts, "STATE_CHANGE",
                       IF curr.state = "OFFLINE" THEN "MEDIUM" ELSE "INFO",
                       [ip |-> curr.ip, mac |-> curr.mac,
                        from |-> prev.state, to |-> curr.state]) >>
         ELSE <<>>)
     \o (IF prev.risk # curr.risk /\ curr.state # "OFFLINE"
         THEN << Event(ts, "RISK_CHANGE",
                       IF curr.risk = "CRITICAL" THEN "CRITICAL" ELSE "MEDIUM",
                       who) >>
         ELSE <<>>)
     \o (IF prev.ports # curr.ports /\ curr.state # "OFFLINE"
         THEN << Event(ts, "PORT_CHANGE", PortChangeSeverity(added),
                       [ip |-> curr.ip, mac |-> curr.mac,
                        added |-> added, removed |-> removed]) >>
         ELSE <<>>)
     \o (IF prev.vendor # "" /\ curr.vendor # "" /\ prev.vendor # curr.vendor
         THEN << Event(ts, "VENDOR_CHANGE", "MEDIUM",
                       [ip |-> curr.ip, mac |-> curr.mac,
                        from |-> prev.vendor, to |-> curr.vendor]) >>
         ELSE <<>>)
     \o (IF prev.hostname # curr.hostname /\ curr.hostname # ""
         THEN << Event(ts, "HOSTNAME_CHANGE", "INFO",
                       [ip |-> curr.ip, mac |-> curr.mac,
                        from |-> prev.hostname, to |-> curr.hostname]) >>
         ELSE <<>>)
     \o (IF prev.os # curr.os /\ curr.os \notin {"", "Unknown"}
         THEN << Event(ts, "OS_CHANGE", "MEDIUM",
                       [ip |-> curr.ip, mac |-> curr.mac,
                        from |-> prev.os, to |-> curr.os]) >>
         ELSE <<>>)

----------------------------------------------------------------------------
(***************************************************************************)
(* The scanner thread, background_scanner.                                 *)
(***************************************************************************)

\* the snapshot before the first cycle has published one, and the default of
\* api_snapshot
EmptySnapshot == [timestamp |-> -1, new |-> 0, critical |-> 0, devices |-> <<>>]

NoReq == [op |-> "none", ip |-> "", mac |-> "", reason |-> "", pc |-> "idle",
          res |-> "none", ts |-> 0, events |-> <<>>,
          snapshot |-> EmptySnapshot]

Init0 ==
    /\ clock = 0
    /\ scan_status = "IDLE"
    /\ scan_requested = FALSE
    /\ pc = "start"
    /\ start_ts = 0
    /\ discovered = <<>>
    /\ key = ""
    /\ new_devices = 0
    /\ device_inventory = <<>>
    /\ baseline = EmptyMap
    /\ baseline_file = EmptyMap
    /\ quarantine_file = EmptyMap
    /\ iptables = [c \in Chains |-> [ip \in IPs |-> 0]]
    /\ events = <<>>
    /\ snapshot_file = EmptySnapshot
    /\ vendor_cache = EmptyMap
    /\ req = [t \in Threads |-> NoReq]
    /\ calls = 0
    /\ restarts = 0
    /\ cycle_mark = 0

\* while True: ... with scan_lock: scan_status["state"] = "SCANNING"
MarkScanning ==
    /\ pc = "start"
    /\ start_ts' = clock
    /\ scan_status' = "SCANNING"
    /\ cycle_mark' = Len(events)
    /\ pc' = "discover"
    /\ UNCHANGED <<clock, scan_requested, discovered, key, new_devices, device_inventory,
                   baseline, baseline_file, quarantine_file, iptables, events,
                   snapshot_file, vendor_cache, root, req, calls, restarts>>

\* discovered = nmap_discovery_xml(NETWORK_CIDR): the hosts that are up, [] on failure
DiscoverFatal(hosts) ==
    /\ pc = "discover"
    /\ discovered' = hosts
    /\ new_devices' = 0
    /\ pc' = IF hosts = <<>> THEN "finally" ELSE "hosts"
    /\ UNCHANGED <<clock, scan_status, scan_requested, start_ts, key,
                   device_inventory, baseline, baseline_file, quarantine_file,
                   iptables, events, snapshot_file, vendor_cache, root, req,
                   calls, restarts,
                   cycle_mark>>
Discover(hosts) ==
    /\ pc = "discover"
    /\ discovered' = hosts
    /\ new_devices' = 0
    /\ pc' = "hosts"
    /\ UNCHANGED <<clock, scan_status, scan_requested, start_ts, key,
                   device_inventory, baseline, baseline_file, quarantine_file,
                   iptables, events, snapshot_file, vendor_cache, root, req,
                   calls, restarts,
                   cycle_mark>>

\* what nmap_profile_xml returns when nmap fails
FailedProfile == [mac |-> NoMac, vendor |-> "Unknown", hostname |-> "",
                  os |-> "Unknown", ports |-> {}]

\* mac[:8].upper(), the key of vendor_cache.json
MacPrefix(mac) == Upper(mac)

IsUnknownVendor(v) == v \in {"Unknown", "unknown", "Unknown Vendor", ""}

\* the baseline entry written for a device record
BaselineEntry(device, t) ==
    [key |-> device.key, mac |-> device.mac, vendor |-> device.vendor,
     hostname |-> device.hostname, os |-> device.os, type |-> device.type,
     risk |-> device.risk, state |-> "ONLINE", ports |-> device.ports,
     first_seen |-> device.first_seen, last_seen_epoch |-> t,
     quarantined |-> device.quarantined]

\* first_seen = baseline_prev.get("first_seen") if baseline_prev else None, and
\* now.strftime(...) `if not first_seen`
FirstSeenFresh(base, k, now) == now
FirstSeen(base, k, now) == IF k \in DOMAIN base THEN base[k].first_seen ELSE now

\* else: if existing: prof["os"], prof["ports"], prof["services"] and
\* prof["hostname"] are taken from the existing record
CopyNothing(prof0, existing) == prof0
CopyForward(prof0, existing) ==
    [prof0 EXCEPT
        !.os = existing.os,
        !.ports = existing.ports,
        !.hostname = IF existing.hostname # ""
                     THEN existing.hostname ELSE prof0.hostname]

\* One iteration of `for host in discovered` on `host`, as a function of what
\* it reads: the new values of what it writes.  p is what nmap_profile_xml
\* returns if it is called and dt how long it runs, rdns what reverse_dns
\* returns if it is called, vend what the vendor service answers if it is
\* asked ("" for a failure or an empty answer).
HostIteration(host, p, dt, rdns, vend, now, inv, base, q, vcache, cycle_start) ==
    LET ip == host.ip
        disc_mac == host.mac
        disc_vendor == IF host.vendor # "" THEN host.vendor ELSE "Unknown"
        disc_hostname == host.hostname
        key_guess == make_key(ip, disc_mac)
        has_existing == HasKey(inv, key_guess)
        existing == Get(inv, key_guess)
        do_profile == IF has_existing
                      THEN (now - existing.last_profile_epoch) >= PROFILE_TTL_SEC
                      ELSE TRUE
        t == IF do_profile THEN now + dt ELSE now
        prof0 == [mac |-> disc_mac, vendor |-> disc_vendor,
                  hostname |-> disc_hostname, os |-> "Unknown", ports |-> {}]
        prof1 == IF do_profile THEN p ELSE CopyForward(prof0, existing)
        hostname == IF prof1.hostname = "" THEN rdns ELSE prof1.hostname
        vendor0 == IF prof1.vendor # "" THEN prof1.vendor ELSE disc_vendor
        mac_final == prof1.mac
        ask_vendor == IsUnknownVendor(vendor0) /\ mac_final # ""
        cached == MacPrefix(mac_final) \in DOMAIN vcache
        vendor_final == IF ~ask_vendor THEN vendor0
                        ELSE IF cached THEN vcache[MacPrefix(mac_final)]
                        ELSE IF vend # "" THEN vend
                        ELSE "Unknown"
        open_ports == prof1.ports
        k == make_key(ip, mac_final)
        qd == is_quarantined(q, ip, mac_final)
        dev_type == identify_device_type(vendor_final, prof1.os, hostname, open_ports)
        risk == compute_risk(open_ports, prof1.os, "ONLINE", qd)
        has_prev == k \in DOMAIN base
        first_seen == FirstSeen(base, k, cycle_start)
        device == [key |-> k, ip |-> ip, mac |-> mac_final,
                   vendor |-> vendor_final, hostname |-> hostname,
                   os |-> IF prof1.os # "" THEN prof1.os ELSE "Unknown",
                   type |-> dev_type, state |-> "ONLINE", quarantined |-> qd,
                   risk |-> risk, ports |-> open_ports,
                   first_seen |-> first_seen, last_seen_epoch |-> t,
                   last_profile_epoch |->
                       IF do_profile THEN t ELSE existing.last_profile_epoch]
    IN  [clock |-> t,
         key |-> k,
         is_new |-> ~has_prev,
         profiled |-> do_profile,
         vendor_cache |-> IF ask_vendor /\ ~cached /\ vend # ""
                          THEN MapPut(vcache, MacPrefix(mac_final), vend)
                          ELSE vcache,
         device_inventory |-> Put(inv, k, device),
         emitted |-> diff_and_emit_events(t, device,
                                          IF has_prev THEN {base[k]} ELSE {}),
         baseline |-> MapPut(base, k, BaselineEntry(device, t))]

ProcessHost(p, dt, rdns, vend) ==
    /\ pc = "hosts"
    /\ discovered # <<>>
    /\ \E r \in {HostIteration(Head(discovered), p, dt, rdns, vend, clock,
                               device_inventory, baseline, ReadQuarantine,
                               vendor_cache, start_ts)} :
           /\ r.clock <= MaxTime
           /\ Len(events) + Len(r.emitted) <= MaxEvents
           /\ clock' = r.clock
           /\ vendor_cache' = r.vendor_cache
           /\ key' = r.key
           /\ new_devices' = IF r.is_new THEN new_devices + 1 ELSE new_devices
           /\ device_inventory' = r.device_inventory
           /\ events' = Emit(events, r.emitted)
           /\ baseline' = r.baseline
    /\ discovered' = Tail(discovered)
    /\ UNCHANGED <<scan_status, scan_requested, pc, start_ts, baseline_file,
                   quarantine_file, iptables, snapshot_file, root, req, calls,
                   restarts,
                   cycle_mark>>

\* The iteration for a host in which emit_event raises (open or write of
\* alerts.jsonl fails) at the first event of diff_and_emit_events:
\* device_inventory[key] is assigned, baseline[key] is not, and the
\* `except Exception` of the worker ends the cycle.
ProcessHostEmitFails(p, dt, rdns, vend) ==
    /\ pc = "hosts"
    /\ discovered # <<>>
    /\ \E r \in {HostIteration(Head(discovered), p, dt, rdns, vend, clock,
                               device_inventory, baseline, ReadQuarantine,
                               vendor_cache, start_ts)} :
           /\ r.clock <= MaxTime
           /\ r.emitted # <<>>
           /\ clock' = r.clock
           /\ vendor_cache' = r.vendor_cache
           /\ key' = r.key
           /\ new_devices' = IF r.is_new THEN new_devices + 1 ELSE new_devices
           /\ device_inventory' = r.device_inventory
    /\ pc' = "finally"
    /\ UNCHANGED <<scan_status, scan_requested, start_ts, discovered, baseline,
                   baseline_file, quarantine_file, iptables, events,
                   snapshot_file, root, req, calls, restarts, cycle_mark>>

\* if key in baseline: baseline[key]["state"] = "OFFLINE"
OfflineBaselineKept(base, k) == base
OfflineBaseline(base, k) ==
    IF k \in DOMAIN base THEN [base EXCEPT ![k].state = "OFFLINE"] ELSE base

\* if (time.time() - last_epoch) >= OFFLINE_AFTER_SEC
IsStaleAfterOneInterval(t, d) == (t - d.last_seen_epoch) >= SCAN_INTERVAL_SEC
IsStale(t, d) == (t - d.last_seen_epoch) >= OFFLINE_AFTER_SEC

\* The OFFLINE detection loop over device_inventory.items() from position i on:
\* the inventory, the baseline and the events it leaves.
RECURSIVE OfflineDetection(_, _, _, _, _)
OfflineDetection(i, inv, base, evs, t) ==
    IF i > Len(inv) THEN [inv |-> inv, base |-> base, evs |-> evs]
    ELSE
    LET d == inv[i]
        k == d.key
    IN  IF IsStale(t, d) /\ d.state # "OFFLINE"
        THEN LET has_prev == k \in DOMAIN base
                 curr == IF has_prev
                         THEN [ip |-> d.ip, mac |-> d.mac, state |-> "OFFLINE",
                               risk |-> base[k].risk, vendor |-> base[k].vendor,
                               hostname |-> base[k].hostname, os |-> base[k].os,
                               ports |-> base[k].ports]
                         ELSE [ip |-> d.ip, mac |-> d.mac, state |-> "OFFLINE",
                               risk |-> "MEDIUM", vendor |-> "None",
                               hostname |-> "", os |-> "", ports |-> {}]
                 emitted == diff_and_emit_events(t, curr,
                                                 IF has_prev THEN {base[k]} ELSE {})
             IN  OfflineDetection(
                     i + 1,
                     [inv EXCEPT ![i].state = "OFFLINE"],
                     OfflineBaseline(base, k),
                     evs \o emitted, t)
        ELSE OfflineDetection(i + 1, inv, base, evs, t)

\* end of the host loop: OFFLINE detection, then save_baseline(baseline)
OfflineSweep ==
    /\ pc = "hosts"
    /\ discovered = <<>>
    /\ \E r \in {OfflineDetection(1, device_inventory, baseline, <<>>, clock)} :
           /\ Len(events) + Len(r.evs) <= MaxEvents
           /\ device_inventory' = r.inv
           /\ baseline' = r.base
           /\ baseline_file' = r.base
           /\ events' = Emit(events, r.evs)
    /\ pc' = "publish"
    /\ UNCHANGED <<clock, scan_status, scan_requested, start_ts, discovered, key,
                   new_devices, quarantine_file, iptables, snapshot_file,
                   vendor_cache, root, req, calls, restarts,
                   cycle_mark>>

\* "enforce OFFLINE risk adjust (unless quarantined)": the records of
\* devices_list are the records of device_inventory
RiskAdjust(d) ==
    IF d.state = "OFFLINE" /\ ~d.quarantined THEN [d EXCEPT !.risk = "MEDIUM"] ELSE d

\* the records of l in the given state class at the given address, in order
DevicesAt(l, offline, ip) ==
    LET Test(d) == (d.state = "OFFLINE") = offline /\ d.ip = ip
    IN  SelectSeq(l, Test)

\* devices_list.sort(key=lambda d: (d.get("state") == "OFFLINE", d.get("ip", ""))),
\* a stable sort
SortDevices(l) ==
    DevicesAt(l, FALSE, "10.0.0.5") \o DevicesAt(l, FALSE, "10.0.0.6")
    \o DevicesAt(l, TRUE, "10.0.0.5") \o DevicesAt(l, TRUE, "10.0.0.6")

Snapshot(devices_list, now, new) ==
    [timestamp |-> now, new |-> new,
     critical |-> Cardinality({i \in 1..Len(devices_list) :
                     /\ devices_list[i].risk = "CRITICAL"
                     /\ devices_list[i].state # "OFFLINE"}),
     devices |-> devices_list]

\* the snapshot is built and written with save_json(SNAPSHOT_FILE, snapshot)
Publish ==
    /\ pc = "publish"
    /\ \E adjusted \in {[i \in 1..Len(device_inventory) |->
                                RiskAdjust(device_inventory[i])]} :
           /\ device_inventory' = adjusted
           /\ snapshot_file' = Snapshot(SortDevices(adjusted), start_ts, new_devices)
    /\ pc' = "finally"
    /\ UNCHANGED <<clock, scan_status, scan_requested, start_ts, discovered, key,
                   new_devices, baseline, baseline_file, quarantine_file, iptables,
                   events, vendor_cache, root, req, calls, restarts,
                   cycle_mark>>

\* Publish in the two steps a reader of scan_snapshot.json can tell apart:
\* save_json is in path.write_text, which has truncated the file and is
\* writing the new text ...
TruncateSnapshot ==
    /\ pc = "publish"
    /\ \E adjusted \in {[i \in 1..Len(device_inventory) |->
                                RiskAdjust(device_inventory[i])]} :
           /\ device_inventory' = adjusted
           /\ snapshot_file' = Snapshot(SortDevices(adjusted), start_ts, new_devices)
    /\ pc' = "saving"
    /\ UNCHANGED <<clock, scan_status, scan_requested, start_ts, discovered, key,
                   new_devices, baseline, baseline_file, quarantine_file, iptables,
                   events, vendor_cache, root, req, calls, restarts,
                   cycle_mark>>

\* ... and write_text has written it
WriteSnapshot ==
    /\ pc = "saving"
    /\ pc' = "finally"
    /\ UNCHANGED <<clock, scan_status, scan_requested, start_ts, discovered, key,
                   new_devices, device_inventory, baseline, baseline_file,
                   quarantine_file, iptables, events, snapshot_file, vendor_cache,
                   root, req, calls, restarts, cycle_mark>>

\* except Exception as e: a statement of the try block raised something the
\* scanner did not expect (a file that cannot be written, a malformed host
\* entry); what the cycle has done so far stays done
AbortUncaught ==
    /\ pc \in {"discover", "hosts", "publish"}
    /\ pc' = "dead"
    /\ UNCHANGED <<clock, scan_status, scan_requested, start_ts, discovered, key,
                   new_devices, device_inventory, baseline, baseline_file,
                   quarantine_file, iptables, events, snapshot_file, vendor_cache,
                   root, req, calls, restarts, cycle_mark>>
Abort ==
    /\ pc \in {"discover", "hosts", "publish"}
    /\ pc' = "finally"
    /\ UNCHANGED <<clock, scan_status, scan_requested, start_ts, discovered, key,
                   new_devices, device_inventory, baseline, baseline_file,
                   quarantine_file, iptables, events, snapshot_file, vendor_cache,
                   root, req, calls, restarts, cycle_mark>>

\* finally: with scan_lock: scan_status["state"] = "IDLE"
Finally ==
    /\ pc = "finally"
    /\ scan_status' = "IDLE"
    /\ pc' = "wait"
    /\ UNCHANGED <<clock, scan_requested, start_ts, discovered, key, new_devices,
                   device_inventory, baseline, baseline_file, quarantine_file,
                   iptables, events, snapshot_file, vendor_cache, root, req,
                   calls, restarts,
                   cycle_mark>>

\* scan_requested.wait(timeout=sleep_for): returns at once when the flag is
\* set, else after sleep_for = max(3, SCAN_INTERVAL_SEC - int(elapsed)); the
\* 3 s floor is below the resolution of the clock
WaitFullInterval ==
    /\ pc = "wait"
    /\ clock' = clock + Max(0, SCAN_INTERVAL_SEC - (clock - start_ts))
    /\ clock' <= MaxTime
    /\ pc' = "clear"
    /\ UNCHANGED <<scan_status, scan_requested, start_ts, discovered, key,
                   new_devices, device_inventory, baseline, baseline_file,
                   quarantine_file, iptables, events, snapshot_file, vendor_cache,
                   root, req, calls, restarts,
                   cycle_mark>>
Wait ==
    /\ pc = "wait"
    /\ LET sleep_for == Max(0, SCAN_INTERVAL_SEC - (clock - start_ts))
       IN  clock' = IF scan_requested THEN clock ELSE clock + sleep_for
    /\ clock' <= MaxTime
    /\ pc' = "clear"
    /\ UNCHANGED <<scan_status, scan_requested, start_ts, discovered, key,
                   new_devices, device_inventory, baseline, baseline_file,
                   quarantine_file, iptables, events, snapshot_file, vendor_cache,
                   root, req, calls, restarts,
                   cycle_mark>>

\* scan_requested.clear()
Clear ==
    /\ pc = "clear"
    /\ scan_requested' = FALSE
    /\ pc' = "start"
    /\ UNCHANGED <<clock, scan_status, start_ts, discovered, key, new_devices,
                   device_inventory, baseline, baseline_file, quarantine_file,
                   iptables, events, snapshot_file, vendor_cache, root, req,
                   calls, restarts,
                   cycle_mark>>

----------------------------------------------------------------------------
(***************************************************************************)
(* The request handlers.  A handler runs on server thread t; req[t] holds  *)
(* its arguments, its position and, once it has returned, its result.      *)
(***************************************************************************)

Free(t) == req[t].pc \in {"idle", "done"}

Goto(t, where) == req' = [req EXCEPT ![t].pc = where]

\* the handler enters emit_event, which builds evt with "ts": now_ts() before
\* it logs the event and opens alerts.jsonl
GotoEmit(t, where) == req' = [req EXCEPT ![t].pc = where, ![t].ts = clock]
Return(t, res) == req' = [req EXCEPT ![t].pc = "done", ![t].res = res]

\* _iptables_rule_exists(chain, ip)
RuleExists(chain, ip) == iptables[chain][ip] > 0

\* api_scan_now, `with scan_lock:` - 409 when the state read is SCANNING
ScanNowCheckAlways(t) ==
    /\ Free(t)
    /\ calls < MaxCalls
    /\ calls' = calls + 1
    /\ req' = [req EXCEPT ![t] = [NoReq EXCEPT !.op = "scan_now", !.pc = "set"]]
    /\ UNCHANGED <<clock, scan_status, scan_requested, pc, start_ts, discovered,
                   key, new_devices, device_inventory, baseline, baseline_file,
                   quarantine_file, iptables, events, snapshot_file, vendor_cache,
                   root, restarts,
                   cycle_mark>>
ScanNowCheck(t) ==
    /\ Free(t)
    /\ calls < MaxCalls
    /\ calls' = calls + 1
    /\ req' = [req EXCEPT ![t] =
                 IF scan_status = "SCANNING"
                 THEN [NoReq EXCEPT !.op = "scan_now", !.pc = "done", !.res = "busy"]
                 ELSE [NoReq EXCEPT !.op = "scan_now", !.pc = "set"]]
    /\ UNCHANGED <<clock, scan_status, scan_requested, pc, start_ts, discovered,
                   key, new_devices, device_inventory, baseline, baseline_file,
                   quarantine_file, iptables, events, snapshot_file, vendor_cache,
                   root, restarts,
                   cycle_mark>>

\* api_scan_now, after the lock is released: scan_requested.set()
ScanNowSet(t) ==
    /\ req[t].op = "scan_now"
    /\ req[t].pc = "set"
    /\ scan_requested' = TRUE
    /\ Return(t, "accepted")
    /\ UNCHANGED <<clock, scan_status, pc, start_ts, discovered, key, new_devices,
                   device_inventory, baseline, baseline_file, quarantine_file,
                   iptables, events, snapshot_file, vendor_cache, root, calls,
                   restarts,
                   cycle_mark>>

\* api_alerts: {"events": tail_events(max(1, min(200, limit)))}
GetAlerts(t, limit) ==
    /\ Free(t)
    /\ calls < MaxCalls
    /\ calls' = calls + 1
    /\ req' = [req EXCEPT ![t] =
                 [NoReq EXCEPT !.op = "alerts", !.pc = "done", !.res = "ok",
                               !.events = tail_events(events, Max(1, limit))]]
    /\ UNCHANGED <<clock, scan_status, scan_requested, pc, start_ts, discovered,
                   key, new_devices, device_inventory, baseline, baseline_file,
                   quarantine_file, iptables, events, snapshot_file, vendor_cache,
                   root, restarts, cycle_mark>>

\* load_json(SNAPSHOT_FILE, default): the text of the file parsed, the default
\* when json.loads raises - as it does on the part of a text that write_text
\* has written so far
load_snapshot_partial ==
    IF pc = "saving" THEN [snapshot_file EXCEPT !.devices = <<>>] ELSE snapshot_file
load_snapshot ==
    IF pc = "saving" THEN EmptySnapshot ELSE snapshot_file

\* api_snapshot: jsonify(load_json(SNAPSHOT_FILE, default))
GetSnapshot(t) ==
    /\ Free(t)
    /\ calls < MaxCalls
    /\ calls' = calls + 1
    /\ req' = [req EXCEPT ![t] =
                 [NoReq EXCEPT !.op = "snapshot", !.pc = "done", !.res = "ok",
                               !.snapshot = load_snapshot]]
    /\ UNCHANGED <<clock, scan_status, scan_requested, pc, start_ts, discovered,
                   key, new_devices, device_inventory, baseline, baseline_file,
                   quarantine_file, iptables, events, snapshot_file, vendor_cache,
                   root, restarts, cycle_mark>>

\* `if not ip and not mac:` - the 400 "Missing ip/mac" of both handlers
MissingIdsNever(ip, mac) == FALSE
MissingIds(ip, mac) == ip = "" /\ mac = ""

\* api_ips_quarantine up to the first firewall command: the validation, and in
\* ips_block_ip the privilege test and _iptables_rule_exists("INPUT", ip)
QuarantineBegin(t, ip, mac, reason) ==
    /\ Free(t)
    /\ calls < MaxCalls
    /\ calls' = calls + 1
    /\ LET r == [NoReq EXCEPT !.op = "quarantine", !.ip = ip, !.mac = mac,
                              !.reason = reason]
       IN  req' = [req EXCEPT ![t] =
                 IF MissingIds(ip, mac) THEN [r EXCEPT !.pc = "done", !.res = "invalid"]
                 ELSE IF ip = "" THEN [r EXCEPT !.pc = "store"]
                 ELSE IF ~root THEN [r EXCEPT !.pc = "emit_failed", !.ts = clock]
                 ELSE IF RuleExists("INPUT", ip) THEN [r EXCEPT !.pc = "fw_check"]
                 ELSE [r EXCEPT !.pc = "in_insert"]]
    /\ UNCHANGED <<clock, scan_status, scan_requested, pc, start_ts, discovered,
                   key, new_devices, device_inventory, baseline, baseline_file,
                   quarantine_file, iptables, events, snapshot_file, vendor_cache,
                   root, restarts,
                   cycle_mark>>

\* ips_block_ip: `if rc1 != 0: return False, ...`, else on to the FORWARD chain
AfterInsertInputIgnored(ok) == "fw_check"
AfterInsertInput(ok) == IF ok THEN "fw_check" ELSE "emit_failed"

\* ips_block_ip: iptables -I INPUT -s ip -j DROP, which may fail (ok = FALSE)
InsertInput(t, ok) ==
    /\ req[t].op = "quarantine"
    /\ req[t].pc = "in_insert"
    /\ iptables' = IF ok THEN [iptables EXCEPT !["INPUT"][req[t].ip] = @ + 1]
                   ELSE iptables
    /\ IF AfterInsertInput(ok) = "emit_failed"
       THEN GotoEmit(t, "emit_failed")
       ELSE Goto(t, AfterInsertInput(ok))
    /\ UNCHANGED <<clock, scan_status, scan_requested, pc, start_ts, discovered,
                   key, new_devices, device_inventory, baseline, baseline_file,
                   quarantine_file, events, snapshot_file, vendor_cache, root,
                   calls, restarts,
                   cycle_mark>>

\* ips_block_ip: _iptables_rule_exists("FORWARD", ip)
CheckForward(t) ==
    /\ req[t].op = "quarantine"
    /\ req[t].pc = "fw_check"
    /\ Goto(t, IF RuleExists("FORWARD", req[t].ip) THEN "store" ELSE "fw_insert")
    /\ UNCHANGED <<clock, scan_status, scan_requested, pc, start_ts, discovered,
                   key, new_devices, device_inventory, baseline, baseline_file,
                   quarantine_file, iptables, events, snapshot_file, vendor_cache,
                   root, calls, restarts,
                   cycle_mark>>

\* ips_block_ip: iptables -I FORWARD -s ip -j DROP, its return code ignored
InsertForward(t, ok) ==
    /\ req[t].op = "quarantine"
    /\ req[t].pc = "fw_insert"
    /\ iptables' = IF ok THEN [iptables EXCEPT !["FORWARD"][req[t].ip] = @ + 1]
                   ELSE iptables
    /\ Goto(t, "store")
    /\ UNCHANGED <<clock, scan_status, scan_requested, pc, start_ts, discovered,
                   key, new_devices, device_inventory, baseline, baseline_file,
                   quarantine_file, events, snapshot_file, vendor_cache, root,
                   calls, restarts,
                   cycle_mark>>

\* key = mac.upper() if mac else f"IP:{ip}"
RequestKeyAsTyped(r) == IF r.mac # "" THEN r.mac ELSE "IP:" \o r.ip
RequestKey(r) == IF r.mac # "" THEN Upper(r.mac) ELSE "IP:" \o r.ip

\* the record api_ips_quarantine stores (the note of a MAC-only record is left out)
QuarantineRecord(r, ts) ==
    [ts |-> ts, ip |-> r.ip, mac |-> r.mac, reason |-> r.reason]

\* a handler that marks the inventory records of the address as it stores
QuarantineStoreMarking(t) ==
    /\ req[t].op = "quarantine"
    /\ req[t].pc = "store"
    /\ ~Saving
    /\ quarantine_file' = MapPut(quarantine_file, RequestKey(req[t]),
                                 QuarantineRecord(req[t], clock))
    /\ device_inventory' =
          [i \in 1..Len(device_inventory) |->
              IF device_inventory[i].ip = req[t].ip
              THEN [device_inventory[i] EXCEPT !.quarantined = TRUE,
                                               !.risk = "CRITICAL"]
              ELSE device_inventory[i]]
    /\ Goto(t, "saving")
    /\ UNCHANGED <<clock, scan_status, scan_requested, pc, start_ts, discovered,
                   key, new_devices, baseline, baseline_file,
                   iptables, events, snapshot_file, vendor_cache, root, calls,
                   restarts,
                   cycle_mark>>

\* api_ips_quarantine, `with quarantine_lock:` load, q[key] = record, save
QuarantineStore(t) ==
    /\ req[t].op = "quarantine"
    /\ req[t].pc = "store"
    /\ ~Saving
    /\ quarantine_file' = MapPut(quarantine_file, RequestKey(req[t]),
                                 QuarantineRecord(req[t], clock))
    /\ Goto(t, "saving")
    /\ UNCHANGED <<clock, scan_status, scan_requested, pc, start_ts, discovered,
                   key, new_devices, device_inventory, baseline, baseline_file,
                   iptables, events, snapshot_file, vendor_cache, root, calls,
                   restarts,
                   cycle_mark>>

\* save_quarantine(q) has written the file; the lock is released and the
\* handler calls emit_event
SaveQuarantine(t) ==
    /\ req[t].pc = "saving"
    /\ GotoEmit(t, "emit")
    /\ UNCHANGED <<clock, scan_status, scan_requested, pc, start_ts, discovered,
                   key, new_devices, device_inventory, baseline, baseline_file,
                   quarantine_file, iptables, events, snapshot_file, vendor_cache,
                   root, calls, restarts,
                   cycle_mark>>

\* api_ips_quarantine: emit_event("IPS_QUARANTINED", ...) and the 200 answer,
\* "Recorded quarantine (MAC-only)" when there was no address to block
QuarantineEmit(t) ==
    /\ req[t].op = "quarantine"
    /\ req[t].pc = "emit"
    /\ Len(events) < MaxEvents
    /\ events' = Emit(events,
                    <<Event(req[t].ts, "IPS_QUARANTINED", "MEDIUM",
                            IF req[t].ip = "" THEN [mac |-> req[t].mac]
                            ELSE [ip |-> req[t].ip, mac |-> req[t].mac,
                                  reason |-> req[t].reason])>>)
    /\ Return(t, IF req[t].ip = "" THEN "recorded" ELSE "quarantined")
    /\ UNCHANGED <<clock, scan_status, scan_requested, pc, start_ts, discovered,
                   key, new_devices, device_inventory, baseline, baseline_file,
                   quarantine_file, iptables, snapshot_file, vendor_cache, root,
                   calls, restarts,
                   cycle_mark>>

\* api_ips_quarantine: ips_block_ip returned (False, msg): the event and the 400
QuarantineFailed(t) ==
    /\ req[t].op = "quarantine"
    /\ req[t].pc = "emit_failed"
    /\ Len(events) < MaxEvents
    /\ events' = Emit(events,
                    <<Event(req[t].ts, "IPS_QUARANTINE_FAILED", "MEDIUM",
                            [msg |-> "failed"])>>)
    /\ Return(t, "failed")
    /\ UNCHANGED <<clock, scan_status, scan_requested, pc, start_ts, discovered,
                   key, new_devices, device_inventory, baseline, baseline_file,
                   quarantine_file, iptables, snapshot_file, vendor_cache, root,
                   calls, restarts,
                   cycle_mark>>

\* ips_unblock_ip: `for _ in range(6)`: iptables -D on both chains, each round
\* deleting one matching rule per chain if there is one; ok = FALSE when the
\* commands fail, which ips_unblock_ip does not look at
Unblocked(rules, ip, ok) ==
    IF ok
    THEN [c \in Chains |-> [rules[c] EXCEPT ![ip] = Max(0, @ - UNBLOCK_ROUNDS)]]
    ELSE rules

\* api_ips_unquarantine up to the store: the validation and ips_unblock_ip
\* (res holds its ok: False without an address to unblock it is True)
UnquarantineBegin(t, ip, mac, ok) ==
    /\ Free(t)
    /\ calls < MaxCalls
    /\ calls' = calls + 1
    /\ LET r == [NoReq EXCEPT !.op = "unquarantine", !.ip = ip, !.mac = mac]
       IN  req' = [req EXCEPT ![t] =
                 IF MissingIds(ip, mac) THEN [r EXCEPT !.pc = "done", !.res = "invalid"]
                 ELSE IF ip # "" /\ ~root THEN [r EXCEPT !.pc = "store", !.res = "not_ok"]
                 ELSE [r EXCEPT !.pc = "store", !.res = "ok"]]
    /\ iptables' = IF ip # "" /\ root THEN Unblocked(iptables, ip, ok) ELSE iptables
    /\ UNCHANGED <<clock, scan_status, scan_requested, pc, start_ts, discovered,
                   key, new_devices, device_inventory, baseline, baseline_file,
                   quarantine_file, events, snapshot_file, vendor_cache, root,
                   restarts,
                   cycle_mark>>

\* api_ips_unquarantine, `with quarantine_lock:` load, q.pop(key, None), save
UnquarantineStore(t) ==
    /\ req[t].op = "unquarantine"
    /\ req[t].pc = "store"
    /\ ~Saving
    /\ quarantine_file' = MapPop(quarantine_file, RequestKey(req[t]))
    /\ Goto(t, "saving")
    /\ UNCHANGED <<clock, scan_status, scan_requested, pc, start_ts, discovered,
                   key, new_devices, device_inventory, baseline, baseline_file,
                   iptables, events, snapshot_file, vendor_cache, root, calls,
                   restarts,
                   cycle_mark>>

\* api_ips_unquarantine: emit_event("IPS_UNQUARANTINED", ...) and the answer
UnquarantineEmit(t) ==
    /\ req[t].op = "unquarantine"
    /\ req[t].pc = "emit"
    /\ Len(events) < MaxEvents
    /\ events' = Emit(events,
                    <<Event(req[t].ts, "IPS_UNQUARANTINED", "INFO",
                            [ip |-> req[t].ip, mac |-> req[t].mac])>>)
    /\ req' = [req EXCEPT ![t].pc = "done"]
    /\ UNCHANGED <<clock, scan_status, scan_requested, pc, start_ts, discovered,
                   key, new_devices, device_inventory, baseline, baseline_file,
                   quarantine_file, iptables, snapshot_file, vendor_cache, root,
                   calls, restarts,
                   cycle_mark>>

----------------------------------------------------------------------------
(***************************************************************************)
(* Process restart: __main__.                                              *)
(***************************************************************************)

\* the rules after an ips_block_ip(ip) whose commands succeed: a rule is
\* inserted into a chain only where _iptables_rule_exists finds none
BlockedUnchecked(rules, ip) == [c \in Chains |-> [rules[c] EXCEPT ![ip] = @ + 1]]
Blocked(rules, ip) ==
    [c \in Chains |-> [rules[c] EXCEPT ![ip] = IF @ > 0 THEN @ ELSE 1]]

\* apply_quarantine_rules_from_file: ips_block_ip for every record with an
\* address; it runs before any thread is started
RECURSIVE Reapplied(_, _, _)
Reapplied(rules, q, todo) ==
    IF todo = {} THEN rules
    ELSE LET k == CHOOSE x \in todo : TRUE
             ip == q[k].ip
         IN  Reapplied(
                 IF ip = "" THEN rules ELSE Blocked(rules, ip),
                 q, todo \ {k})

\* The process is started again (reboot: the machine was rebooted, so the
\* kernel's rules are gone).  Memory is lost, the files stay: a quarantine.json
\* whose writer was stopped inside write_text stays truncated.
Restart(reboot) ==
    /\ restarts < MaxRestarts
    /\ restarts' = restarts + 1
    /\ quarantine_file' = ReadQuarantine
    /\ LET rules == IF reboot THEN [c \in Chains |-> [ip \in IPs |-> 0]] ELSE iptables
       IN  iptables' = IF root THEN Reapplied(rules, ReadQuarantine,
                                              DOMAIN ReadQuarantine)
                       ELSE rules
    /\ device_inventory' = <<>>
    /\ baseline' = baseline_file
    /\ scan_status' = "IDLE"
    /\ scan_requested' = FALSE
    /\ pc' = "start"
    /\ discovered' = <<>>
    /\ key' = ""
    /\ cycle_mark' = Len(events)
    /\ new_devices' = 0
    /\ req' = [t \in Threads |-> NoReq]
    /\ UNCHANGED <<clock, start_ts, baseline_file, events, snapshot_file,
                   vendor_cache, root, calls>>

----------------------------------------------------------------------------
(***************************************************************************)
(* Inputs of the environment.                                              *)
(***************************************************************************)

ScanMacs == {"AA:BB"}

\* what nmap -sn reports for an address: the vendor comes with the hardware address
DiscHosts(ip) ==
    {[ip |-> ip, mac |-> NoMac, vendor |-> "Unknown", hostname |-> ""]}
    \cup {[ip |-> ip, mac |-> m, vendor |-> "Acme", hostname |-> ""] : m \in ScanMacs}

\* discovery results of a network where one address is in use
Discoveries1 ==
    {<<>>} \cup {<<h>> : h \in DiscHosts("10.0.0.5")}

\* profiling results: the failure, a Linux host that shows port 445 open and
\* no hardware address, and one that shows its hardware address and no open port
Profiles ==
    {FailedProfile,
     [mac |-> NoMac, vendor |-> "Unknown", hostname |-> "", os |-> "Linux",
      ports |-> {"445"}],
     [mac |-> "AA:BB", vendor |-> "Acme", hostname |-> "", os |-> "Linux",
      ports |-> {}]}

ProfileTimes == {0, PROFILE_TIMEOUT}

ApiIps == {"", "10.0.0.5"}
ApiMacs == {"", "aa:bb"}
Reasons == {"manual"}
\* ?limit= of /api/alerts: below the clamp, one, and the default
AlertLimits == {0, 1, 25}

Scanner(D, P, DT) ==
    \/ MarkScanning
    \/ \E hosts \in D : Discover(hosts)
    \/ \E p \in P, dt \in DT : ProcessHost(p, dt, "", "")
    \/ OfflineSweep
    \/ Publish
    \/ Finally
    \/ Wait
    \/ Clear

\* the scanner with a vendor service that answers one of V ("" when the
\* request fails, times out or returns nothing)
ScannerProviders(D, P, DT, V) ==
    \/ MarkScanning
    \/ \E hosts \in D : Discover(hosts)
    \/ \E p \in P, dt \in DT, vend \in V : ProcessHost(p, dt, "", vend)
    \/ OfflineSweep
    \/ Publish
    \/ Finally
    \/ Wait
    \/ Clear

ScanNow(T) ==
    \E t \in T :
        \/ ScanNowCheck(t)
        \/ ScanNowSet(t)

Enforcement(T, A, M) ==
    \E t \in T :
        \/ \E ip \in A, mac \in M, reason \in Reasons :
               QuarantineBegin(t, ip, mac, reason)
        \/ \E ok \in BOOLEAN : InsertInput(t, ok)
        \/ CheckForward(t)
        \/ \E ok \in BOOLEAN : InsertForward(t, ok)
        \/ QuarantineStore(t)
        \/ QuarantineEmit(t)
        \/ QuarantineFailed(t)
        \/ \E ip \in A, mac \in M, ok \in BOOLEAN :
               UnquarantineBegin(t, ip, mac, ok)
        \/ SaveQuarantine(t)
        \/ UnquarantineStore(t)
        \/ UnquarantineEmit(t)

\* started as root, or without the privilege the firewall needs
Init == Init0 /\ root \in BOOLEAN
InitRoot == Init0 /\ root = TRUE

\* the scanner alone, over restarts
Next ==
    \/ Scanner(Discoveries1, Profiles, ProfileTimes)
    \/ Restart(FALSE)

Spec == InitRoot /\ [][Next]_vars

\* the scanner and manual scan requests, on a network where one host without a
\* visible hardware address comes and goes
QuietHosts == {<<>>, <<[ip |-> "10.0.0.5", mac |-> NoMac, vendor |-> "Unknown",
                       hostname |-> ""]>>}
NextScanNow ==
    \/ Scanner(QuietHosts, {FailedProfile}, ProfileTimes)
    \/ ScanNow(Threads)

SpecScanNow == InitRoot /\ [][NextScanNow]_vars

\* one client, a profiling that returns at once, and a scanner thread and a
\* request handler that run whenever they can
NextWake ==
    \/ Scanner(QuietHosts, {FailedProfile}, {0})
    \/ ScanNow({1})

SpecWake ==
    /\ InitRoot /\ [][NextWake]_vars
    /\ WF_vars(Scanner(QuietHosts, {FailedProfile}, {0}))
    /\ WF_vars(ScanNowSet(1))

\* a host with port 445 open that comes and goes, and one client asking for
\* scans
NextSkip ==
    \/ Scanner(QuietHosts, {[mac |-> NoMac, vendor |-> "Unknown", hostname |-> "",
                             os |-> "Linux", ports |-> {"445"}]}, {0})
    \/ ScanNow({1})

SpecSkip == InitRoot /\ [][NextSkip]_vars

\* the scanner on a network where nmap -sn shows no hardware address and two
\* addresses answer; profiling an address shows hardware address AA:BB and
\* either no open port or port 80, and returns at once or at its timeout
HiddenMacHosts ==
    {<<>>}
    \cup {<<[ip |-> a, mac |-> NoMac, vendor |-> "Unknown", hostname |-> ""]>> : a \in IPs}
    \cup {<<[ip |-> "10.0.0.5", mac |-> NoMac, vendor |-> "Unknown", hostname |-> ""],
             [ip |-> "10.0.0.6", mac |-> NoMac, vendor |-> "Unknown", hostname |-> ""]>>}
SharedMacProfiles ==
    {[mac |-> "AA:BB", vendor |-> "Acme", hostname |-> "", os |-> "Linux",
      ports |-> ps] : ps \in {{}, {"80"}}}
NextTwoHosts == Scanner(HiddenMacHosts, SharedMacProfiles, ProfileTimes)

SpecTwoHosts == InitRoot /\ [][NextTwoHosts]_vars

\* diff_and_emit_events on its own: a device that is in the baseline with the
\* ports prev_ports is recorded with the ports curr_ports, ONLINE by the host
\* loop or OFFLINE by the sweep, and the two are compared
DiffPorts == {"22", "80", "445", "8080"}
DiffDevice(ports, state) ==
    [key |-> "IP:10.0.0.5", ip |-> "10.0.0.5", mac |-> NoMac, vendor |-> "Unknown",
     hostname |-> "", os |-> "Linux", type |-> "Linux Device", state |-> state,
     quarantined |-> FALSE, risk |-> compute_risk(ports, "Linux", state, FALSE),
     ports |-> ports, first_seen |-> 0, last_seen_epoch |-> 0,
     last_profile_epoch |-> 0]
InitDiff ==
    /\ \E prev_ports \in SUBSET DiffPorts, curr_ports \in SUBSET DiffPorts,
          state \in {"ONLINE", "OFFLINE"} :
          /\ baseline = [k \in {"IP:10.0.0.5"} |->
                            BaselineEntry(DiffDevice(prev_ports, "ONLINE"), 0)]
          /\ device_inventory = << DiffDevice(curr_ports, state) >>
    /\ baseline_file = baseline
    /\ pc = "diff"
    /\ key = "IP:10.0.0.5"
    /\ clock = 0 /\ start_ts = 0
    /\ scan_status = "SCANNING" /\ scan_requested = FALSE
    /\ discovered = <<>> /\ new_devices = 0
    /\ quarantine_file = EmptyMap
    /\ iptables = [c \in Chains |-> [ip \in IPs |-> 0]]
    /\ events = <<>>
    /\ snapshot_file = EmptySnapshot
    /\ vendor_cache = EmptyMap
    /\ root = TRUE
    /\ req = [t \in Threads |-> NoReq]
    /\ calls = 0 /\ restarts = 0 /\ cycle_mark = 0

\* diff_and_emit_events(key, curr, baseline.get(key))
Diff ==
    /\ pc = "diff"
    /\ events' = diff_and_emit_events(clock, Get(device_inventory, key),
                                       {baseline[key]})
    /\ pc' = "diffed"
    /\ UNCHANGED <<clock, scan_status, scan_requested, start_ts, discovered, key,
                   new_devices, device_inventory, baseline, baseline_file,
                   quarantine_file, iptables, snapshot_file, vendor_cache, root,
                   req, calls, restarts,
                   cycle_mark>>

SpecDiff == InitDiff /\ [][Diff]_vars

\* diff_and_emit_events on every combination of differences between a
\* baseline entry and the ONLINE record of the host loop, beside the scanner
\* on the network of two addresses
OrderDevice(state, ports, vendor, hostname, os) ==
    [DiffDevice(ports, state) EXCEPT
        !.vendor = vendor, !.hostname = hostname, !.os = os,
        !.type = identify_device_type(vendor, os, hostname, ports),
        !.risk = compute_risk(ports, os, "ONLINE", FALSE)]
InitOrder ==
    \/ InitRoot
    \/ /\ \E prev_state \in {"ONLINE", "OFFLINE"},
              prev_ports \in {{}, {"445"}}, curr_ports \in {{}, {"445"}},
              prev_vendor \in {"Unknown", "Acme"}, curr_vendor \in {"Unknown", "Acme"},
              prev_hostname \in {"", "pi"}, curr_hostname \in {"", "pi"},
              prev_os \in {"Unknown", "Linux"}, curr_os \in {"Unknown", "Linux"} :
              /\ baseline = [k \in {"IP:10.0.0.5"} |->
                    [BaselineEntry(OrderDevice("ONLINE", prev_ports, prev_vendor,
                                               prev_hostname, prev_os), 0)
                        EXCEPT !.state = prev_state]]
              /\ device_inventory =
                    << OrderDevice("ONLINE", curr_ports, curr_vendor,
                                   curr_hostname, curr_os) >>
       /\ baseline_file = baseline
       /\ pc = "diff"
       /\ key = "IP:10.0.0.5"
       /\ clock = 0 /\ start_ts = 0
       /\ scan_status = "SCANNING" /\ scan_requested = FALSE
       /\ discovered = <<>> /\ new_devices = 0
       /\ quarantine_file = EmptyMap
       /\ iptables = [c \in Chains |-> [ip \in IPs |-> 0]]
       /\ events = <<>>
       /\ snapshot_file = EmptySnapshot
       /\ vendor_cache = EmptyMap
       /\ root = TRUE
       /\ req = [t \in Threads |-> NoReq]
       /\ calls = 0 /\ restarts = 0 /\ cycle_mark = 0

NextOrder ==
    \/ Diff
    \/ Scanner(HiddenMacHosts, SharedMacProfiles \cup {FailedProfile}, {0})

SpecOrder == InitOrder /\ [][NextOrder]_vars

\* diff_and_emit_events on ONLINE and OFFLINE records whose ports differ from
\* the baseline's, beside the scanner on a network where a host comes and goes
NextOffline ==
    \/ Diff
    \/ Scanner(Discoveries1, Profiles, {0})

SpecOffline == (InitDiff \/ InitRoot) /\ [][NextOffline]_vars

\* two addresses whose profiling fails, at once or at its timeout
NextSlow == Scanner(HiddenMacHosts, {FailedProfile}, ProfileTimes)

SpecSlow == InitRoot /\ [][NextSlow]_vars

\* the enforcement requests alone, on two server threads, over restarts of
\* the process and reboots of the machine
NextIps ==
    \/ Enforcement(Threads, ApiIps, ApiMacs)
    \/ \E reboot \in BOOLEAN : Restart(reboot)

SpecIps == Init /\ [][NextIps]_vars

\* the scanner and the enforcement requests of one server thread; profiling
\* does not fail
QuarantineProfiles == Profiles \ {FailedProfile}
NextQuarantine ==
    \/ Scanner(Discoveries1, QuarantineProfiles, {0}) /\ clock' <= QuarantineTime
    \/ Enforcement({1}, {"10.0.0.5"}, ApiMacs)

SpecQuarantine == InitRoot /\ [][NextQuarantine]_vars

----------------------------------------------------------------------------
(***************************************************************************)
(* Properties.                                                             *)
(***************************************************************************)

\* the events a step appends to alerts.jsonl
Appended == SubSeq(events', Len(events) + 1, Len(events'))

\* the device key an event of the scanner is about
EventKey(e) == make_key(Field(e.details, "ip"), Field(e.details, "mac"))

\* how many events of a kind about key k a sequence of events holds
CountOf(evs, kind, k) ==
    Cardinality({i \in 1..Len(evs) : evs[i].kind = kind /\ EventKey(evs[i]) = k})

ScannerKinds == {"NEW_DEVICE", "STATE_CHANGE", "RISK_CHANGE", "PORT_CHANGE",
                 "VENDOR_CHANGE", "HOSTNAME_CHANGE", "OS_CHANGE"}

\* a step of the host loop (one host processed), and the end-of-cycle sweep
HostStep == pc = "hosts" /\ pc' = "hosts" /\ discovered # <<>>
                /\ discovered' = Tail(discovered)
SweepStep == pc = "hosts" /\ pc' = "publish"

\* C1: when the host loop processes an observation whose key has no baseline
\* entry, the step appends exactly one event, a NEW_DEVICE for that key whose
\* severity is the risk of the record just stored.
C1_NewDeviceOnly ==
    [][(HostStep /\ key' \notin DOMAIN baseline) =>
          /\ Len(Appended) = 1
          /\ Appended[1].kind = "NEW_DEVICE"
          /\ EventKey(Appended[1]) = key'
          /\ HasKey(device_inventory', key')
          /\ Appended[1].severity = Get(device_inventory', key').risk]_vars

C1_Witness ==
    /\ pc = "hosts"
    /\ key # ""
    /\ Len(events) > 0
    /\ events[Len(events)].kind = "NEW_DEVICE"
    /\ events[Len(events)].severity = "CRITICAL"
    /\ EventKey(events[Len(events)]) = key

\* C2: a tracked ONLINE device whose last-seen is at least the offline timeout
\* old at the sweep becomes OFFLINE there; a record goes ONLINE -> OFFLINE only
\* in the sweep and with exactly one STATE_CHANGE (to OFFLINE) for its key; no
\* STATE_CHANGE for the key is appended while the record stays OFFLINE; and the
\* next observation of an OFFLINE key sets it ONLINE with exactly one
\* STATE_CHANGE (to ONLINE).
C2_OfflineOnceAndBack ==
    [][\A k \in Keys : HasKey(device_inventory, k) =>
        LET d == Get(device_inventory, k)
            to == {Appended[i].details.to : i \in
                     {j \in 1..Len(Appended) : /\ Appended[j].kind = "STATE_CHANGE"
                                               /\ EventKey(Appended[j]) = k}}
            n == CountOf(Appended, "STATE_CHANGE", k)
        IN  /\ (SweepStep /\ d.state = "ONLINE"
                  /\ clock - d.last_seen_epoch >= OFFLINE_AFTER_SEC)
               => Get(device_inventory', k).state = "OFFLINE"
            /\ (HasKey(device_inventory', k) /\ d.state = "ONLINE"
                  /\ Get(device_inventory', k).state = "OFFLINE")
               => (SweepStep /\ n = 1 /\ to = {"OFFLINE"}
                     /\ clock - d.last_seen_epoch >= OFFLINE_AFTER_SEC)
            /\ (HasKey(device_inventory', k) /\ d.state = "OFFLINE"
                  /\ Get(device_inventory', k).state = "OFFLINE")
               => n = 0
            /\ (HostStep /\ key' = k /\ d.state = "OFFLINE")
               => (Get(device_inventory', k).state = "ONLINE" /\ n = 1
                     /\ to = {"ONLINE"})]_vars

\* a key went OFFLINE and came back: its two STATE_CHANGE events are in the log
C2_Witness ==
    \E i, j \in 1..Len(events) :
        /\ i < j
        /\ events[i].kind = "STATE_CHANGE" /\ events[i].details.to = "OFFLINE"
        /\ events[j].kind = "STATE_CHANGE" /\ events[j].details.to = "ONLINE"
        /\ EventKey(events[i]) = EventKey(events[j])
        /\ HasKey(device_inventory, EventKey(events[j]))
        /\ Get(device_inventory, EventKey(events[j])).state = "ONLINE"

\* C9: once baseline.json holds a first_seen for a key, no step changes it, and
\* the in-memory baseline entry and the inventory record of that key carry the
\* same value after every step (restarts included).
C9_FirstSeenWriteOnce ==
    [][\A k \in DOMAIN baseline_file :
          /\ k \in DOMAIN baseline_file'
          /\ baseline_file'[k].first_seen = baseline_file[k].first_seen
          /\ k \in DOMAIN baseline'
          /\ baseline'[k].first_seen = baseline_file[k].first_seen
          /\ HasKey(device_inventory', k) =>
                Get(device_inventory', k).first_seen = baseline_file[k].first_seen]_vars

\* a key first seen in an earlier cycle is observed again after a restart
C9_Witness ==
    /\ restarts > 0
    /\ key # ""
    /\ key \in DOMAIN baseline_file
    /\ HasKey(device_inventory, key)
    /\ Get(device_inventory, key).first_seen < start_ts
    /\ Get(device_inventory, key).last_seen_epoch >= start_ts


\* positions of the scanner thread inside a scan cycle
InCycle == pc \in {"discover", "hosts", "publish", "saving", "finally"}

\* C3: the state is SCANNING exactly while the one scanner thread is inside a
\* cycle, and a cycle starts only from IDLE; a scan-now request that reads
\* SCANNING returns busy, leaves the request flag and the scanner untouched,
\* and the flag is only ever set by a request that read IDLE.
C3_OneCycleBusy ==
    /\ [](scan_status = "SCANNING" <=> InCycle)
    /\ [][/\ (~InCycle /\ InCycle') => (pc = "start" /\ scan_status = "IDLE")
          /\ (calls' = calls + 1 /\ scan_status = "SCANNING") =>
                /\ UNCHANGED <<scan_requested, pc, scan_status, start_ts,
                   cycle_mark>>
                /\ \E t \in Threads :
                      /\ Free(t)
                      /\ req' = [req EXCEPT ![t] =
                                   [NoReq EXCEPT !.op = "scan_now", !.pc = "done",
                                                 !.res = "busy"]]
          /\ (scan_requested' /\ ~scan_requested) =>
                \E t \in Threads : req[t].pc = "set" /\ req'[t].res = "accepted"]_vars

\* a request was answered busy during a cycle while another one, which read
\* IDLE before the cycle began, is about to set the flag
C3_Witness ==
    /\ scan_status = "SCANNING"
    /\ \E t, u \in Threads :
          /\ req[t].op = "scan_now" /\ req[t].res = "busy"
          /\ req[u].op = "scan_now" /\ req[u].pc = "set"


\* the enforcement events of the log, in order
IsIpsEvent(e) == e.kind \in {"IPS_QUARANTINED", "IPS_UNQUARANTINED"}
IpsEvents == SelectSeq(events, IsIpsEvent)

\* no enforcement request is running
NoneInFlight == \A t \in Threads : req[t].pc \in {"idle", "done"}

\* Quarantine(a, "") has returned its success and no Unquarantine for a has
\* been started since
QuarantinedByAddress(a) ==
    \E i \in 1..Len(events) :
        /\ events[i].kind = "IPS_QUARANTINED"
        /\ Field(events[i].details, "ip") = a
        /\ Field(events[i].details, "mac") = ""
        /\ \A j \in (i + 1)..Len(events) :
              ~(events[j].kind = "IPS_UNQUARANTINED"
                  /\ Field(events[j].details, "ip") = a)
        /\ \A t \in Threads :
              ~(req[t].op = "unquarantine" /\ req[t].ip = a
                  /\ req[t].pc \notin {"idle", "done"})

\* C4 (as claimed): once Quarantine(a, "") has succeeded, and until an
\* Unquarantine for a, every host-loop step that observes a host at a stores
\* its record with quarantined = TRUE and risk CRITICAL.
C4_ObservedQuarantined ==
    [][(HostStep /\ QuarantinedByAddress(Head(discovered).ip)) =>
          /\ Get(device_inventory', key').quarantined
          /\ Get(device_inventory', key').risk = "CRITICAL"]_vars

\* the records of the quarantine store that are about address a or hardware
\* address h
RecordsFor(a, h) ==
    {k \in DOMAIN quarantine_file :
        \/ a # "" /\ (k = "IP:" \o a \/ quarantine_file[k].ip = a)
        \/ h # "" /\ (k = Upper(h) \/ Upper(quarantine_file[k].mac) = Upper(h))}

\* C5 (as claimed): when the last two enforcement calls to return were
\* successful Quarantine calls for the same address a, there is exactly one
\* DROP rule for a in each chain and exactly one record for a in the store.
C5_QuarantineIdempotent ==
    LET n == Len(IpsEvents)
    IN  (/\ NoneInFlight
         /\ n >= 2
         /\ IpsEvents[n - 1].kind = "IPS_QUARANTINED"
         /\ IpsEvents[n].kind = "IPS_QUARANTINED"
         /\ Field(IpsEvents[n].details, "ip") # ""
         /\ Field(IpsEvents[n - 1].details, "ip") = Field(IpsEvents[n].details, "ip"))
        => LET a == Field(IpsEvents[n].details, "ip")
           IN  /\ \A c \in Chains : iptables[c][a] = 1
               /\ Cardinality(RecordsFor(a, "")) = 1

\* the last two enforcement calls to return were Quarantine(a, h) and then
\* Unquarantine(a, h), and nothing is running
RoundTrip(a, h) ==
    LET n == Len(IpsEvents)
    IN  /\ NoneInFlight
        /\ n >= 2
        /\ IpsEvents[n - 1].kind = "IPS_QUARANTINED"
        /\ IpsEvents[n].kind = "IPS_UNQUARANTINED"
        /\ Field(IpsEvents[n - 1].details, "ip") = a
        /\ Field(IpsEvents[n].details, "ip") = a
        /\ Field(IpsEvents[n - 1].details, "mac") = h
        /\ Field(IpsEvents[n].details, "mac") = h

\* C6 (as claimed): after Quarantine(a, h) then Unquarantine(a, h) no DROP rule
\* for a is installed, the store holds no record for the device, and a host
\* observed at a is stored with quarantined = FALSE and the risk of its ports
\* and OS.
C6_RoundTrip ==
    /\ [](\A a \in ApiIps, h \in ApiMacs : RoundTrip(a, h) =>
             /\ a # "" => \A c \in Chains : iptables[c][a] = 0
             /\ RecordsFor(a, h) = {})
    /\ [][\A a \in ApiIps \ {""}, h \in ApiMacs :
             (RoundTrip(a, h) /\ HostStep /\ Head(discovered).ip = a) =>
                LET d == Get(device_inventory', key')
                IN  /\ ~d.quarantined
                    /\ d.risk = compute_risk(d.ports, d.os, "ONLINE", FALSE)]_vars

\* an inventory record matches a quarantine record of q
Matches(d, q) ==
    \/ d.mac # "" /\ Upper(d.mac) \in DOMAIN q
    \/ ("IP:" \o d.ip) \in DOMAIN q
    \/ \E k \in DOMAIN q : q[k].ip = d.ip

\* the quarantine records that were stored before the current cycle began
StoredBeforeCycle ==
    [k \in {x \in DOMAIN quarantine_file : quarantine_file[x].ts < start_ts}
        |-> quarantine_file[k]]

\* C10 (as claimed, and only for records stored before the cycle began): when
\* a cycle has published its snapshot, every inventory record that matches a
\* persisted quarantine record has quarantined = TRUE and risk CRITICAL.
C10_MatchingQuarantined ==
    (pc = "finally" /\ NoneInFlight) =>
        \A i \in 1..Len(device_inventory) :
            Matches(device_inventory[i], StoredBeforeCycle) =>
                /\ device_inventory[i].quarantined
                /\ device_inventory[i].risk = "CRITICAL"


\* the PORT_CHANGE events of the log
IsPortChange(e) == e.kind = "PORT_CHANGE"
PortChanges == SelectSeq(events, IsPortChange)

\* C7: for a device that is not OFFLINE, diff_and_emit_events emits a
\* PORT_CHANGE iff the baseline ports P differ from the current ports C, and
\* only one; its added list holds exactly the ports of C \ P and its removed
\* list exactly those of P \ C, each once; its severity is CRITICAL iff an
\* added port is in RISKY_PORTS_CRITICAL, else MEDIUM.
C7_PortChange ==
    (pc = "diffed" /\ device_inventory[1].state # "OFFLINE") =>
        LET P == baseline[key].ports
            C == device_inventory[1].ports
        IN  /\ Len(PortChanges) = IF P # C THEN 1 ELSE 0
            /\ P # C =>
                  LET e == PortChanges[1]
                  IN  /\ ToSet(e.details.added) = C \ P
                      /\ Len(e.details.added) = Cardinality(C \ P)
                      /\ ToSet(e.details.removed) = P \ C
                      /\ Len(e.details.removed) = Cardinality(P \ C)
                      /\ e.severity = IF (C \ P) \cap {"23", "2323", "3389", "5900", "445"} # {}
                                      THEN "CRITICAL" ELSE "MEDIUM"

\* the example of the specification: P = {22, 80}, C = {22, 445}
C7_Witness ==
    /\ pc = "diffed"
    /\ baseline[key].ports = {"22", "80"}
    /\ device_inventory[1].ports = {"22", "445"}
    /\ device_inventory[1].state = "ONLINE"
    /\ Len(PortChanges) = 1
    /\ PortChanges[1].details.added = <<"445">>
    /\ PortChanges[1].details.removed = <<"80">>
    /\ PortChanges[1].severity = "CRITICAL"


\* the events of the scanner since the current cycle began
CycleEvents == SubSeq(events, cycle_mark + 1, Len(events))

\* C8 (as claimed): in a scan cycle at most one event of each kind is emitted
\* for each device key, host loop and OFFLINE detection taken together.
C8_OneEventPerKeyAndKind ==
    \A k \in Keys, kind \in ScannerKinds : CountOf(CycleEvents, kind, k) <= 1

\* the enforcement requests with every combination of arguments on thread 1,
\* requests for one address on thread 2, over restarts and reboots
NextCalls ==
    \/ Enforcement({1}, ApiIps, ApiMacs)
    \/ Enforcement({2}, {"10.0.0.5"}, {""})
    \/ \E reboot \in BOOLEAN : Restart(reboot)

SpecCalls == Init /\ [][NextCalls]_vars

\* the scanner with providers that fail: discovery returns [] or the host,
\* profiling returns its failure dict or a hardware address without a vendor,
\* and the vendor service answers or not
ProviderProfiles ==
    {FailedProfile,
     [mac |-> "AA:BB", vendor |-> "Unknown", hostname |-> "", os |-> "Linux",
      ports |-> {}]}
Vendors == {"", "Acme"}
NextProviders ==
    ScannerProviders(Discoveries1, ProviderProfiles, ProfileTimes, Vendors)

SpecProviders == InitRoot /\ [][NextProviders]_vars

\* the scanner with unexpected failures in its try block; the thread runs
\* whenever it can
NextFaults ==
    \/ Scanner(QuietHosts, {FailedProfile}, ProfileTimes)
    \/ Abort

SpecFaults == InitRoot /\ [][NextFaults]_vars /\ WF_vars(NextFaults)

\* readers of the snapshot beside a scanner whose snapshot write takes time
NextSnapshot ==
    \/ Scanner(Discoveries1, Profiles, {0})
    \/ TruncateSnapshot
    \/ WriteSnapshot
    \/ GetSnapshot(1)

SpecSnapshot == InitRoot /\ [][NextSnapshot]_vars

\* compute_risk on its own: a record with every combination of open ports,
\* OS guess, state and quarantine flag has its risk computed and is published
RiskPorts == {"22", "80", "445"}
RiskOs == {"", "Unknown", "Linux"}
InitRisk ==
    /\ \E ports \in SUBSET RiskPorts, os \in RiskOs,
          state \in {"ONLINE", "OFFLINE"}, qd \in BOOLEAN :
          device_inventory =
              << [DiffDevice(ports, state) EXCEPT !.os = os, !.quarantined = qd,
                                                  !.risk = "LOW"] >>
    /\ baseline = EmptyMap
    /\ baseline_file = EmptyMap
    /\ pc = "risk"
    /\ key = "IP:10.0.0.5"
    /\ clock = 0 /\ start_ts = 0
    /\ scan_status = "SCANNING" /\ scan_requested = FALSE
    /\ discovered = <<>> /\ new_devices = 0
    /\ quarantine_file = EmptyMap
    /\ iptables = [c \in Chains |-> [ip \in IPs |-> 0]]
    /\ events = <<>>
    /\ snapshot_file = EmptySnapshot
    /\ vendor_cache = EmptyMap
    /\ root = TRUE
    /\ req = [t \in Threads |-> NoReq]
    /\ calls = 0 /\ restarts = 0 /\ cycle_mark = 0

\* risk = compute_risk(open_ports, os, state, qd)
Risk ==
    /\ pc = "risk"
    /\ device_inventory' =
           [device_inventory EXCEPT ![1].risk =
               compute_risk(device_inventory[1].ports, device_inventory[1].os,
                            device_inventory[1].state, device_inventory[1].quarantined)]
    /\ pc' = "publish"
    /\ UNCHANGED <<clock, scan_status, scan_requested, start_ts, discovered, key,
                   new_devices, baseline, baseline_file, quarantine_file, iptables,
                   events, snapshot_file, vendor_cache, root, req, calls, restarts,
                   cycle_mark>>

NextRisk == Risk \/ Publish

SpecRisk == InitRisk /\ [][NextRisk]_vars

\* identify_device_type on its own: a record with every combination of
\* vendor, OS guess, hostname and open ports has its type computed and is
\* published
InitType ==
    /\ \E vendor \in {"Unknown", "Raspberry Pi Trading", "Apple", "Samsung"},
          os \in {"Unknown", "Linux", "Windows 10", "Darwin"},
          hostname \in {"", "pi"},
          ports \in SUBSET {"22", "62078", "8008"} :
          device_inventory =
              << [DiffDevice(ports, "ONLINE") EXCEPT !.vendor = vendor, !.os = os,
                                                    !.hostname = hostname,
                                                    !.type = ""] >>
    /\ baseline = EmptyMap
    /\ baseline_file = EmptyMap
    /\ pc = "type"
    /\ key = "IP:10.0.0.5"
    /\ clock = 0 /\ start_ts = 0
    /\ scan_status = "SCANNING" /\ scan_requested = FALSE
    /\ discovered = <<>> /\ new_devices = 0
    /\ quarantine_file = EmptyMap
    /\ iptables = [c \in Chains |-> [ip \in IPs |-> 0]]
    /\ events = <<>>
    /\ snapshot_file = EmptySnapshot
    /\ vendor_cache = EmptyMap
    /\ root = TRUE
    /\ req = [t \in Threads |-> NoReq]
    /\ calls = 0 /\ restarts = 0 /\ cycle_mark = 0

\* dev_type = identify_device_type(vendor_final, os, hostname, open_ports)
Type ==
    /\ pc = "type"
    /\ device_inventory' =
           [device_inventory EXCEPT ![1].type =
               identify_device_type(device_inventory[1].vendor,
                                    device_inventory[1].os,
                                    device_inventory[1].hostname,
                                    device_inventory[1].ports)]
    /\ pc' = "publish"
    /\ UNCHANGED <<clock, scan_status, scan_requested, start_ts, discovered, key,
                   new_devices, baseline, baseline_file, quarantine_file, iptables,
                   events, snapshot_file, vendor_cache, root, req, calls, restarts,
                   cycle_mark>>

NextType == Type \/ Publish

SpecType == InitType /\ [][NextType]_vars

\* every writer and the reader of alerts.jsonl: the scanner on a network where
\* one host comes and goes, the requests for one address and /api/alerts one
\* after the other on a thread, and restarts while the scanner sleeps
NextEvents ==
    \/ Scanner(QuietHosts, {FailedProfile}, {0}) /\ clock' <= QuarantineTime
    \/ Enforcement({1}, {"10.0.0.5"}, {""}) /\ calls' <= EventsCalls
    \/ \E limit \in AlertLimits : GetAlerts(1, limit) /\ calls' <= EventsCalls
    \/ Restart(FALSE) /\ pc = "wait"

SpecEvents == InitRoot /\ [][NextEvents]_vars

----------------------------------------------------------------------------
\* a step of the handler on thread t that leaves it inside a call of op
Stepped(t, op) == req'[t] # req[t] /\ req'[t].op = op

\* a handler on thread t has just been entered with the arguments (ip, mac)
Entered(t) == Free(t) /\ req'[t] # req[t] /\ req'[t].op \in {"quarantine", "unquarantine"}

\* C11: a Quarantine or Unquarantine call in which both the address and the
\* hardware address are empty is answered with the validation error, and the
\* firewall rules, quarantine.json and alerts.jsonl are what they were.
C11_MissingIdsRejected ==
    [][\A t \in Threads :
          Entered(t) /\ req'[t].ip = "" /\ req'[t].mac = ""
          => /\ req'[t].pc = "done"
             /\ req'[t].res = "invalid"
             /\ iptables' = iptables
             /\ quarantine_file' = quarantine_file
             /\ events' = events]_vars

\* an Unquarantine without identifiers was rejected while a record was stored
\* and its rule installed
C11_Witness ==
    \E t \in Threads :
        /\ req[t].op = "unquarantine"
        /\ req[t].res = "invalid"
        /\ DOMAIN quarantine_file # {}
        /\ iptables["INPUT"]["10.0.0.5"] > 0
        /\ Len(events) > 0

\* a record with an address that this step writes to quarantine.json
WrittenWithAddress ==
    {k \in DOMAIN quarantine_file' :
        /\ quarantine_file'[k].ip # ""
        /\ k \in DOMAIN quarantine_file => quarantine_file'[k] # quarantine_file[k]}

\* C12: a Quarantine with an address whose block fails (no privilege or no
\* firewall tool, or the INPUT insert returns an error) reports the failure and
\* does not write quarantine.json; a record with an address is written only by
\* a call that has passed the block of that address.
C12_NoRecordOnFailedBlock ==
    [][/\ \A t \in Threads :
            /\ Entered(t) /\ req'[t].op = "quarantine" /\ req'[t].ip # "" /\ ~root
               => req'[t].pc = "emit_failed" /\ quarantine_file' = quarantine_file
            /\ req[t].pc = "in_insert" /\ Stepped(t, "quarantine")
                 /\ iptables'["INPUT"][req[t].ip] = iptables["INPUT"][req[t].ip]
               => req'[t].pc = "emit_failed" /\ quarantine_file' = quarantine_file
            /\ req[t].pc = "emit_failed" /\ Stepped(t, "quarantine")
               => req'[t].res = "failed" /\ quarantine_file' = quarantine_file
       /\ \A k \in WrittenWithAddress :
            \E t \in Threads :
                /\ req[t].op = "quarantine"
                /\ req[t].pc = "store"
                /\ req[t].ip = quarantine_file'[k].ip
                /\ root]_vars

\* the INPUT insert of a call failed, the call has reported the failure, and
\* quarantine.json holds no record
C12_Witness ==
    \E t \in Threads :
        /\ req[t].op = "quarantine"
        /\ req[t].res = "failed"
        /\ root
        /\ iptables["INPUT"][req[t].ip] = 0
        /\ quarantine_file = EmptyMap

\* the records of store q that match the address a or the hardware address h
MatchingRecords(q, a, h) ==
    {k \in DOMAIN q :
        \/ a # "" /\ (q[k].ip = a \/ k = "IP:" \o a)
        \/ h # "" /\ (Upper(q[k].mac) = Upper(h) \/ k = Upper(h))}

\* C13: when an Unquarantine(a, h) with an identifier returns (no other
\* request having been made on another thread), quarantine.json holds no
\* record that matches a or h, whatever the earlier Quarantine calls were.
C13_UnquarantineClearsRecords ==
    [][\A t \in Threads :
          /\ Stepped(t, "unquarantine")
          /\ req'[t].pc = "done"
          /\ req'[t].res # "invalid"
          /\ \A u \in Threads \ {t} : req[u] = NoReq
          => MatchingRecords(quarantine_file', req'[t].ip, req'[t].mac) = {}]_vars

\* a call of Quarantine without an address, on thread t
MacOnly(t) == req[t].op = "quarantine" /\ req[t].ip = "" /\ req[t].mac # ""

\* C14: a Quarantine with a hardware address and no address runs no firewall
\* command, stores a record with an empty address under the upper-case hardware
\* address, and answers "recorded", which no call with an address answers.
C14_MacOnlyRecorded ==
    /\ [][\A t \in Threads :
             /\ Entered(t) /\ req'[t].op = "quarantine"
                  /\ req'[t].ip = "" /\ req'[t].mac # ""
                => req'[t].pc = "store" /\ iptables' = iptables
             /\ MacOnly(t) /\ ~Free(t) /\ Stepped(t, "quarantine")
                => iptables' = iptables
             /\ MacOnly(t) /\ Stepped(t, "quarantine") /\ req[t].pc = "store"
                => /\ Upper(req[t].mac) \in DOMAIN quarantine_file'
                   /\ quarantine_file'[Upper(req[t].mac)].ip = ""
                   /\ quarantine_file'[Upper(req[t].mac)].mac = req[t].mac
                   /\ DOMAIN quarantine_file' =
                          DOMAIN quarantine_file \cup {Upper(req[t].mac)}
             /\ MacOnly(t) /\ ~Free(t) /\ Stepped(t, "quarantine")
                  /\ req'[t].pc = "done"
                => req'[t].res = "recorded"]_vars
    /\ [](\A t \in Threads :
             req[t].op = "quarantine" /\ req[t].ip # "" => req[t].res # "recorded")

\* a call without an address has answered "recorded", its record is stored
\* under AA:BB and no rule is installed
C14_Witness ==
    \E t \in Threads :
        /\ MacOnly(t)
        /\ req[t].mac = "aa:bb"
        /\ req[t].res = "recorded"
        /\ "AA:BB" \in DOMAIN quarantine_file
        /\ quarantine_file["AA:BB"].ip = ""
        /\ \A c \in Chains, ip \in IPs : iptables[c][ip] = 0

\* the addresses of the records of store q
RecordAddresses(q) == {q[k].ip : k \in DOMAIN q} \ {""}

\* C15: a start as root leaves a rule in both chains for the address of every
\* record of quarantine.json that has one, adds no rule for an address that is
\* blocked already and none for other addresses, and does not write the file.
C15_Reconcile ==
    [][restarts' # restarts /\ root
       => /\ quarantine_file' = ReadQuarantine
          /\ \A c \in Chains, ip \in IPs :
                /\ ip \in RecordAddresses(quarantine_file') => iptables'[c][ip] >= 1
                /\ iptables'[c][ip] <= Max(1, iptables[c][ip])
                /\ ip \notin RecordAddresses(quarantine_file')
                   => iptables'[c][ip] <= iptables[c][ip]]_vars

\* after a start there is one rule per chain for the stored address, and a
\* record without an address next to it
C15_Witness ==
    /\ restarts = 1
    /\ root
    /\ \A t \in Threads : req[t] = NoReq
    /\ "10.0.0.5" \in RecordAddresses(quarantine_file)
    /\ \E k \in DOMAIN quarantine_file : quarantine_file[k].ip = ""
    /\ \A c \in Chains : iptables[c]["10.0.0.5"] = 1

\* C16: the calls are serialized, so the rules are those of some sequential
\* order of the calls; every sequential order checks for the rule before it
\* inserts, so no chain ever holds two DROP rules for one address.
C16_NoDuplicateRule ==
    \A c \in Chains, ip \in IPs : iptables[c][ip] <= 1

\* C17: alerts.jsonl is append-only: each step of the scan cycle, the OFFLINE
\* detection, the handlers, the startup and /api/alerts leaves the log it
\* found as a prefix of the log; an emit_event of a handler adds one record,
\* /api/alerts and the startup add none.
C17_AppendOnly ==
    [][/\ Len(events') >= Len(events)
       /\ SubSeq(events', 1, Len(events)) = events
       /\ \A t \in Threads :
             /\ req[t].pc \in {"emit", "emit_failed"} /\ req'[t].pc = "done"
                => Len(events') = Len(events) + 1
             /\ Entered(t) => events' = events
             /\ req'[t] # req[t] /\ req'[t].op = "alerts" => events' = events
       /\ restarts' # restarts => events' = events]_vars

\* the log holds a record of the scanner followed by one of a handler that
\* returned after the process had been started again
C17_Witness ==
    /\ restarts = 1
    /\ req[1].op = "quarantine"
    /\ req[1].pc = "done"
    /\ \E i, j \in 1..Len(events) :
          /\ i < j
          /\ events[i].kind = "NEW_DEVICE"
          /\ IsIpsEvent(events[j])

\* C18: alerts.jsonl is ordered by time: a record is never followed by one
\* with an earlier timestamp, whichever threads emitted the two.
C18_TimeOrdered ==
    \A i, j \in 1..Len(events) : i < j => events[i].ts <= events[j].ts

\* C19: the risk of a record is that of the first trigger that applies, in
\* the order quarantined (CRITICAL), a port of the CRITICAL set (CRITICAL), a
\* port of the MEDIUM set (MEDIUM), empty or unknown OS (MEDIUM), OFFLINE
\* (MEDIUM), else LOW - as computed by compute_risk and as published in the
\* snapshot, for ONLINE and for OFFLINE records.
C19_RiskPrecedence ==
    pc \in {"publish", "finally"} =>
        LET d == device_inventory[1]
            level ==
                IF d.quarantined THEN "CRITICAL"
                ELSE IF d.ports \cap RISKY_PORTS_CRITICAL # {} THEN "CRITICAL"
                ELSE IF d.ports \cap RISKY_PORTS_MEDIUM # {} THEN "MEDIUM"
                ELSE IF d.os \in {"", "Unknown"} THEN "MEDIUM"
                ELSE IF d.state = "OFFLINE" THEN "MEDIUM"
                ELSE "LOW"
        IN  /\ d.risk = level
            /\ pc = "finally" => snapshot_file.devices[1].risk = level

\* C20: a record or a baseline entry becomes OFFLINE only in the OFFLINE
\* detection at the end of a cycle, and only when OFFLINE_AFTER_SEC or more
\* have passed since the record's last_seen_epoch; an ONLINE record younger
\* than that which the step does not observe is left as it is, and no
\* STATE_CHANGE is emitted for its key.
C20_OfflineOnlyBySweep ==
    [][restarts' = restarts =>
       \A k \in Keys :
          /\ (/\ k \in DOMAIN baseline /\ k \in DOMAIN baseline'
              /\ baseline[k].state # "OFFLINE" /\ baseline'[k].state = "OFFLINE")
             => /\ SweepStep
                /\ HasKey(device_inventory, k)
                /\ clock - Get(device_inventory, k).last_seen_epoch
                      >= OFFLINE_AFTER_SEC
          /\ HasKey(device_inventory, k) =>
                LET d == Get(device_inventory, k)
                    e == Get(device_inventory', k)
                    elapsed == clock - d.last_seen_epoch
                IN  /\ HasKey(device_inventory', k)
                    /\ (d.state # "OFFLINE" /\ e.state = "OFFLINE")
                       => SweepStep /\ elapsed >= OFFLINE_AFTER_SEC
                    /\ (/\ d.state = "ONLINE"
                        /\ elapsed < OFFLINE_AFTER_SEC
                        /\ ~(HostStep /\ key' = k))
                       => e = d /\ CountOf(Appended, "STATE_CHANGE", k) = 0]_vars

\* the OFFLINE detection has run in a cycle whose discovery did not show a
\* device seen one interval earlier, and the record is still ONLINE
C20_Witness ==
    /\ pc = "publish"
    /\ discovered = <<>>
    /\ \E i \in 1..Len(device_inventory) :
          /\ device_inventory[i].state = "ONLINE"
          /\ device_inventory[i].last_seen_epoch < start_ts
          /\ clock - device_inventory[i].last_seen_epoch < OFFLINE_AFTER_SEC
          /\ \A j \in 1..Len(events) :
                events[j].kind = "STATE_CHANGE"
                => EventKey(events[j]) # device_inventory[i].key

\* C21: when the host loop processes a host whose record exists and was
\* profiled less than PROFILE_TTL_SEC ago, nmap_profile_xml is not run and
\* the record keeps its last_profile_epoch - whether discovery reports the
\* host's hardware address or only profiling does.
C21_ProfileThrottle ==
    [][HostStep /\ HasKey(device_inventory, key')
       => LET d == Get(device_inventory, key')
              elapsed == clock - d.last_profile_epoch
          IN  (elapsed >= 1 /\ elapsed < PROFILE_TTL_SEC)
              => /\ Get(device_inventory', key').last_profile_epoch
                       = d.last_profile_epoch
                 /\ clock' = clock]_vars

C23_WorkerNeverStuck ==
    \A t \in 0..(MaxTime - 1) :
        /\ (scan_status = "SCANNING" /\ start_ts = t)
               ~> (scan_status = "IDLE" /\ start_ts = t)
        /\ (scan_status = "IDLE" /\ pc = "wait" /\ start_ts = t)
               ~> (scan_status = "SCANNING" /\ start_ts > t)

\* a cycle has started although no cycle before it reached its snapshot
C23_Witness ==
    /\ scan_status = "SCANNING"
    /\ start_ts >= 1
    /\ snapshot_file = EmptySnapshot

\* C24: the record the host loop stores for a discovered host is keyed by the
\* uppercase hardware address when discovery or profiling reported one in
\* this cycle, and by "IP:" + address only when neither did.
C24_KeyByHardwareAddress ==
    [][HostStep
       => LET h == Head(discovered)
              d == Get(device_inventory', key')
              known == IF d.mac # NoMac THEN d.mac ELSE h.mac
          IN  /\ HasKey(device_inventory', key')
              /\ d.ip = h.ip
              /\ key' = make_key(h.ip, known)]_vars

\* C25: api_snapshot answers the default or the whole of the snapshot file,
\* whenever it runs; and the file only ever changes to the snapshot a cycle
\* builds at its end: all records of the inventory, OFFLINE risk adjusted,
\* sorted, with their counts.
C25_WholeSnapshots ==
    [][/\ (calls' = calls + 1 /\ req'[1].op = "snapshot")
            => /\ req'[1].snapshot \in {EmptySnapshot, snapshot_file}
               /\ LET r == req'[1].snapshot
                  IN  /\ r = Snapshot(r.devices, r.timestamp, r.new)
                      /\ r.new <= Len(r.devices)
                      /\ \A i \in 1..Len(r.devices) :
                            RiskAdjust(r.devices[i]) = r.devices[i]
       /\ snapshot_file' # snapshot_file
            => /\ pc = "publish"
               /\ snapshot_file' = Snapshot(SortDevices(device_inventory'),
                                            start_ts, new_devices)
               /\ \A i \in 1..Len(device_inventory') :
                     RiskAdjust(device_inventory'[i]) = device_inventory'[i]]_vars

\* a reader has been answered the default while the second snapshot, with an
\* OFFLINE record in it, was being written
C25_Witness ==
    /\ pc = "saving"
    /\ req[1].op = "snapshot"
    /\ req[1].pc = "done"
    /\ req[1].snapshot = EmptySnapshot
    /\ \E i \in 1..Len(snapshot_file.devices) :
          snapshot_file.devices[i].state = "OFFLINE"

\* C26: while the worker sleeps with the request flag set no time passes and
\* the flag stays set, and none passes between the end of the sleep and the
\* start of the next cycle; and wherever the worker is when a request has set
\* the flag, a cycle starts afterwards.
C26_WakesEarly ==
    /\ [][/\ (pc = "wait" /\ scan_requested)
               => /\ clock' = clock
                  /\ pc' = "wait" => scan_requested'
          /\ pc \in {"clear", "start"} => clock' = clock
          /\ (pc = "start" /\ pc' # pc)
               => /\ pc' = "discover"
                  /\ scan_status' = "SCANNING"
                  /\ start_ts' = clock]_vars
    /\ (scan_requested /\ pc # "start") ~> (pc = "start")
    /\ (pc = "start") ~> (pc = "discover")

\* a cycle has started at the time the cycle before it started, after a
\* request was accepted
C26_Witness ==
    /\ pc = "discover"
    /\ snapshot_file.timestamp = start_ts
    /\ clock = start_ts
    /\ \E t \in Threads : req[t].op = "scan_now" /\ req[t].res = "accepted"

\* C27: the request flag is one slot that the worker empties before each
\* cycle, and it is never set while a cycle is in progress.
C27_NoBacklog ==
    /\ [](scan_status = "SCANNING" => ~scan_requested)
    /\ [][(pc = "clear" /\ pc' # pc) => (pc' = "start" /\ ~scan_requested')]_vars

\* C28: the type of a record is the label of the first rule that applies, in
\* the order SBC vendor or hostname, Apple vendor (locked phone by port 62078,
\* Mac by OS, else Apple device), TV vendor, media port, Windows, Linux (server
\* with port 22), else unknown; so an SBC vendor with port 22 open is an SBC
\* whatever its OS guess - as computed and as published in the snapshot.
C28_FirstMatchWins ==
    pc \in {"publish", "finally"} =>
        LET d == device_inventory[1]
            sbc == VendorHasRaspberry(d.vendor) \/ HostnameHasPi(d.hostname)
            apple == ~sbc /\ VendorHasApple(d.vendor)
            tv == ~sbc /\ ~apple /\ VendorHasTv(d.vendor)
            media == /\ ~sbc /\ ~apple /\ ~tv
                     /\ d.ports \cap {"8008", "8009", "1900", "554", "2869"} # {}
            windows == ~sbc /\ ~apple /\ ~tv /\ ~media /\ OsHasWindows(d.os)
            linux == /\ ~sbc /\ ~apple /\ ~tv /\ ~media /\ ~windows
                     /\ OsHasLinux(d.os)
        IN  /\ sbc => d.type = "Raspberry Pi"
            /\ apple /\ "62078" \in d.ports => d.type = "iPhone/iPad (Locked)"
            /\ apple /\ "62078" \notin d.ports /\ OsHasDarwin(d.os)
                  => d.type = "Mac (iMac/MacBook)"
            /\ apple /\ "62078" \notin d.ports /\ ~OsHasDarwin(d.os)
                  => d.type = "Apple Device"
            /\ tv => d.type = "Smart TV"
            /\ media => d.type = "Smart TV / Media Player"
            /\ windows => d.type = "Windows Device"
            /\ linux /\ "22" \in d.ports => d.type = "Linux Server / SBC"
            /\ linux /\ "22" \notin d.ports => d.type = "Linux Device"
            /\ ~(sbc \/ apple \/ tv \/ media \/ windows \/ linux)
                  => d.type = "Unknown Device"
            /\ pc = "finally" => snapshot_file.devices[1].type = d.type

\* the record of a Raspberry Pi vendor with a Linux OS guess and port 22 open
\* is published as a Raspberry Pi
C28_Witness ==
    /\ pc = "finally"
    /\ Len(snapshot_file.devices) = 1
    /\ VendorHasRaspberry(snapshot_file.devices[1].vendor)
    /\ OsHasLinux(snapshot_file.devices[1].os)
    /\ "22" \in snapshot_file.devices[1].ports
    /\ snapshot_file.devices[1].type = "Raspberry Pi"

\* the place of a kind in the order of the rules
RuleRank(kind) ==
    CASE kind = "STATE_CHANGE" -> 1 [] kind = "RISK_CHANGE" -> 2
      [] kind = "PORT_CHANGE" -> 3 [] kind = "VENDOR_CHANGE" -> 4
      [] kind = "HOSTNAME_CHANGE" -> 5 [] kind = "OS_CHANGE" -> 6
      [] OTHER -> 0

\* evs holds one event for each rule that applies to (prev, curr), and no
\* other, in the order of the rules
RulesApplied(evs, prev, curr) ==
    LET Has(kind) == \E i \in 1..Len(evs) : evs[i].kind = kind
    IN  /\ \A i \in 1..Len(evs) : RuleRank(evs[i].kind) >= 1
        /\ \A i, j \in 1..Len(evs) :
              i < j => RuleRank(evs[i].kind) < RuleRank(evs[j].kind)
        /\ Has("STATE_CHANGE") <=> prev.state # curr.state
        /\ Has("RISK_CHANGE") <=> (prev.risk # curr.risk /\ curr.state # "OFFLINE")
        /\ Has("PORT_CHANGE") <=> (prev.ports # curr.ports /\ curr.state # "OFFLINE")
        /\ Has("VENDOR_CHANGE")
              <=> (prev.vendor # "" /\ curr.vendor # "" /\ prev.vendor # curr.vendor)
        /\ Has("HOSTNAME_CHANGE")
              <=> (prev.hostname # curr.hostname /\ curr.hostname # "")
        /\ Has("OS_CHANGE")
              <=> (prev.os # curr.os /\ curr.os \notin {"", "Unknown"})

\* C29: for a record with a baseline entry the diff emits one event for each
\* of the six change rules that applies, whatever the others do, in the order
\* STATE, RISK, PORT, VENDOR, HOSTNAME, OS; the events of a host are appended
\* while that host is processed, before the next host's, and the OFFLINE
\* detection appends its events after the last host; no other step of the
\* scanner appends.
C29_DiffOrder ==
    [][/\ (pc = "diff" /\ pc' = "diffed")
            => RulesApplied(events', baseline[key], device_inventory[1])
       /\ (HostStep /\ key' \in DOMAIN baseline)
            => RulesApplied(Appended, baseline[key'], Get(device_inventory', key'))
       /\ HostStep
            => /\ SubSeq(events', 1, Len(events)) = events
               /\ \A i \in 1..Len(Appended) :
                     Appended[i].details.ip = Head(discovered).ip
       /\ SweepStep
            => /\ discovered = <<>>
               /\ SubSeq(events', 1, Len(events)) = events
               /\ \A i \in 1..Len(Appended) :
                     /\ Appended[i].kind = "STATE_CHANGE"
                     /\ Appended[i].details.to = "OFFLINE"
       /\ (pc \notin {"diff", "hosts"}) => events' = events]_vars

\* a diff in which all six rules applied
C29_Witness ==
    /\ pc = "diffed"
    /\ Len(events) = 6
    /\ events[2].kind = "RISK_CHANGE"
    /\ events[3].kind = "PORT_CHANGE"

\* C30: when the host loop processes a host whose record exists and was
\* profiled less than PROFILE_TTL_SEC ago, the new record is stored under the
\* same key with the ports and the OS guess of the existing one, ONLINE or
\* OFFLINE, and the step emits no PORT_CHANGE, OS_CHANGE or RISK_CHANGE.
C30_SkippedProfileKeeps ==
    [][HostStep =>
         LET g == make_key(Head(discovered).ip, Head(discovered).mac)
         IN  (/\ HasKey(device_inventory, g)
              /\ clock - Get(device_inventory, g).last_profile_epoch
                    < PROFILE_TTL_SEC)
             => LET e == Get(device_inventory, g)
                    d == Get(device_inventory', g)
                IN  /\ key' = g
                    /\ d.ports = e.ports
                    /\ d.os = e.os
                    /\ d.state = "ONLINE"
                    /\ \A i \in 1..Len(Appended) :
                          Appended[i].kind \notin
                              {"PORT_CHANGE", "OS_CHANGE", "RISK_CHANGE"}]_vars

\* a device with port 445 open is back ONLINE in a cycle that did not profile
\* it: the first observation after it was OFFLINE
C30_Witness ==
    /\ pc = "hosts"
    /\ HasKey(device_inventory, key)
    /\ Get(device_inventory, key).state = "ONLINE"
    /\ Get(device_inventory, key).ports = {"445"}
    /\ Get(device_inventory, key).last_seen_epoch >= start_ts
    /\ Get(device_inventory, key).last_profile_epoch < start_ts
    /\ Len(events) > cycle_mark
    /\ events[Len(events)].kind = "STATE_CHANGE"
    /\ events[Len(events)].details.to = "ONLINE"

\* C31: when discovery reports a vendor for a host, the record the host loop
\* stores carries a reported vendor - profiling's if it reported one, else
\* discovery's - and the vendor service is not asked, so the vendor cache
\* stays as it is.
C31_VendorOrder ==
    [][(HostStep /\ ~IsUnknownVendor(Head(discovered).vendor))
       => /\ HasKey(device_inventory', key')
          /\ ~IsUnknownVendor(Get(device_inventory', key').vendor)
          /\ vendor_cache' = vendor_cache]_vars

\* the host step that ends here asked the vendor service: the prefix of the
\* record's hardware address was not in the cache, and the answer is in the
\* cache now or the record is left without a vendor
VendorServiceCalled ==
    /\ HostStep
    /\ HasKey(device_inventory', key')
    /\ LET d == Get(device_inventory', key')
       IN  /\ d.mac # NoMac
           /\ MacPrefix(d.mac) \notin DOMAIN vendor_cache
           /\ \/ IsUnknownVendor(d.vendor)
              \/ MacPrefix(d.mac) \in DOMAIN vendor_cache'

\* C32: the vendor service is asked at most once for a prefix: once a record
\* shows that it was asked for a prefix and gave no vendor, no later host step
\* asks it for that prefix again.
C32_LookupOncePerPrefix ==
    [][(/\ HostStep
        /\ HasKey(device_inventory', key')
        /\ \E i \in 1..Len(device_inventory) :
              /\ device_inventory[i].mac # NoMac
              /\ IsUnknownVendor(device_inventory[i].vendor)
              /\ MacPrefix(device_inventory[i].mac)
                    = MacPrefix(Get(device_inventory', key').mac))
       => ~VendorServiceCalled]_vars

C34_FreshIsOnline ==
    pc = "finally" =>
        \A i \in 1..Len(device_inventory) :
            device_inventory[i].last_seen_epoch >= start_ts
            => /\ device_inventory[i].state = "ONLINE"
               /\ device_inventory[i].key \in DOMAIN baseline
               /\ baseline[device_inventory[i].key].state = "ONLINE"
               /\ \E j \in 1..Len(snapshot_file.devices) :
                     /\ snapshot_file.devices[j].key = device_inventory[i].key
                     /\ snapshot_file.devices[j].state = "ONLINE"

\* C35: after a restart too, the OFFLINE detection of a cycle turns OFFLINE
\* every baseline entry that is ONLINE and was last seen OFFLINE_AFTER_SEC or
\* more ago, and appends one STATE_CHANGE about its key.
C35_SweepAfterRestart ==
    [][SweepStep =>
         \A k \in DOMAIN baseline :
            (/\ baseline[k].state = "ONLINE"
             /\ clock - baseline[k].last_seen_epoch >= OFFLINE_AFTER_SEC)
            => /\ baseline'[k].state = "OFFLINE"
               /\ CountOf(Appended, "STATE_CHANGE", k) = 1]_vars

\* C36: while the process runs no record and no baseline entry is removed or
\* moved to another key, and a host step leaves the records of all other
\* keys as they are; a host step that stores a record under a hardware
\* address with no baseline entry, for an address already recorded under
\* "IP:" + address, appends one NEW_DEVICE for the new key, whose first_seen
\* is the start of this cycle.
C36_NoKeyMigration ==
    [][restarts' = restarts =>
        /\ Len(device_inventory') >= Len(device_inventory)
        /\ \A i \in 1..Len(device_inventory) :
              /\ device_inventory'[i].key = device_inventory[i].key
              /\ device_inventory'[i].ip = device_inventory[i].ip
              /\ device_inventory'[i].first_seen = device_inventory[i].first_seen
              /\ (HostStep /\ device_inventory[i].key # key')
                    => device_inventory'[i] = device_inventory[i]
        /\ DOMAIN baseline \subseteq DOMAIN baseline'
        /\ \A k \in DOMAIN baseline :
              /\ baseline'[k].key = k
              /\ baseline'[k].first_seen = baseline[k].first_seen
              /\ (HostStep /\ k # key') => baseline'[k] = baseline[k]
        /\ (/\ HostStep
            /\ key' # make_key(Head(discovered).ip, NoMac)
            /\ key' \notin DOMAIN baseline
            /\ HasKey(device_inventory, make_key(Head(discovered).ip, NoMac)))
           => /\ Len(Appended) = 1
              /\ Appended[1].kind = "NEW_DEVICE"
              /\ EventKey(Appended[1]) = key'
              /\ Get(device_inventory', key').first_seen = start_ts
              /\ Len(device_inventory') = Len(device_inventory) + 1]_vars

\* the address recorded under "IP:10.0.0.5" in an earlier cycle has just got
\* a second record under its hardware address, and the first one was since
\* swept OFFLINE or is still ONLINE
C36_Witness ==
    /\ pc = "hosts"
    /\ key = "AA:BB"
    /\ HasKey(device_inventory, "IP:10.0.0.5")
    /\ HasKey(device_inventory, "AA:BB")
    /\ Get(device_inventory, "AA:BB").ip = "10.0.0.5"
    /\ Get(device_inventory, "IP:10.0.0.5").first_seen
          < Get(device_inventory, "AA:BB").first_seen
    /\ "IP:10.0.0.5" \in DOMAIN baseline
    /\ events[Len(events)].kind = "NEW_DEVICE"
    /\ EventKey(events[Len(events)]) = "AA:BB"

\* the enforcement requests of one server thread, one after the other, started
\* as root with firewall commands that succeed, over starts of the process made
\* while no request is being served
NextAgree ==
    \/ \E ip \in ApiIps, mac \in ApiMacs : QuarantineBegin(1, ip, mac, "manual")
    \/ InsertInput(1, TRUE)
    \/ CheckForward(1)
    \/ InsertForward(1, TRUE)
    \/ QuarantineStore(1)
    \/ QuarantineEmit(1)
    \/ \E ip \in ApiIps, mac \in ApiMacs : UnquarantineBegin(1, ip, mac, TRUE)
    \/ SaveQuarantine(1)
    \/ UnquarantineStore(1)
    \/ UnquarantineEmit(1)
    \/ \E reboot \in BOOLEAN : NoneInFlight /\ Restart(reboot)

SpecAgree == InitRoot /\ [][NextAgree]_vars

\* C37: between the calls, a chain holds a DROP rule for an address exactly
\* when some record of quarantine.json carries that address.
C37_StoreAndFirewallAgree ==
    NoneInFlight
    => \A a \in IPs :
          (\E c \in Chains : RuleExists(c, a))
             <=> a \in RecordAddresses(quarantine_file)

\* the scanner on a network whose one host shows no hardware address and the
\* enforcement requests for its address on one server thread, as root, over
\* a reboot of the machine
NextFrame ==
    \/ Scanner(QuietHosts, {FailedProfile}, {0}) /\ clock' <= QuarantineTime
    \/ Enforcement({1}, {"10.0.0.5"}, {""}) /\ calls' <= EventsCalls
    \/ Restart(TRUE)

SpecFrame == InitRoot /\ [][NextFrame]_vars

\* C38: a step of a handler leaves the inventory, the baseline (in memory and
\* on disk) and the snapshot as they are, and so does the start-up for the two
\* files; a step of the worker leaves quarantine.json and the firewall rules
\* as they are; the quarantined flag of a record changes only in the step of
\* the host loop that stores the record under its key (and its risk, by the
\* first part, only in a step of the worker).
C38_DisjointWrites ==
    [][/\ (restarts' = restarts /\ (req' # req \/ calls' # calls))
          => UNCHANGED <<device_inventory, baseline, baseline_file, snapshot_file>>
       /\ restarts' # restarts => UNCHANGED <<baseline_file, snapshot_file>>
       /\ (restarts' = restarts /\ req' = req /\ calls' = calls)
          => UNCHANGED <<quarantine_file, iptables>>
       /\ restarts' = restarts
          => \A i \in 1..Len(device_inventory) :
                device_inventory'[i].quarantined # device_inventory[i].quarantined
                => HostStep /\ device_inventory[i].key = key']_vars

\* a Quarantine of the address has answered while the record and the baseline
\* entry of the host, stored by an earlier cycle, are as that cycle left them
\* and the snapshot still shows it not quarantined; the worker is in a later
\* cycle and the rule and the record of the store are in place
C38_Witness ==
    /\ req[1].op = "quarantine"
    /\ req[1].res = "quarantined"
    /\ HasKey(device_inventory, "IP:10.0.0.5")
    /\ ~Get(device_inventory, "IP:10.0.0.5").quarantined
    /\ "IP:10.0.0.5" \in DOMAIN baseline
    /\ Len(snapshot_file.devices) = 1
    /\ ~snapshot_file.devices[1].quarantined
    /\ pc = "discover"
    /\ "IP:10.0.0.5" \in DOMAIN quarantine_file
    /\ RuleExists("INPUT", "10.0.0.5")

\* the scanner on a network where one host without a visible hardware address
\* comes and goes, with an alerts.jsonl that cannot always be written
NextEmitFault ==
    \/ Scanner(QuietHosts, {FailedProfile}, {0})
    \/ ProcessHostEmitFails(FailedProfile, 0, "", "")

SpecEmitFault == InitRoot /\ [][NextEmitFault]_vars

\* C39: when a cycle publishes - it has run its host loop and its OFFLINE
\* detection and saved the baseline without a failure - every record of the
\* inventory has a baseline entry under its key, no other record has that
\* key, and the record and the entry have the same state and first_seen.
C39_InventoryMatchesBaseline ==
    [][(pc = "publish" /\ pc' = "finally")
       => \A i \in 1..Len(device_inventory') :
             LET k == device_inventory'[i].key
             IN  /\ k \in DOMAIN baseline'
                 /\ baseline'[k].key = k
                 /\ \A j \in 1..Len(device_inventory') :
                       device_inventory'[j].key = k => j = i
                 /\ baseline'[k].state = device_inventory'[i].state
                 /\ baseline'[k].first_seen = device_inventory'[i].first_seen]_vars

\* C40: alerts.jsonl never holds two NEW_DEVICE events about one device key,
\* whatever cycles and restarts of the process produced it.
C40_OneNewDevicePerKey ==
    \A k \in Keys : CountOf(events, "NEW_DEVICE", k) <= 1
====
